---- MODULE Spec2Model ----
(***************************************************************************)
(* A model of ByteBuf (src/bytebuf.ts): a DataView subclass with a private  *)
(* moving byte offset (the cursor), positional get/set accessors and        *)
(* streaming read/write accessors.                                          *)
(*                                                                          *)
(* buffer  the ArrayBuffer the view lies over (this.buffer), a sequence of  *)
(*         bytes; byte i of the memory is buffer[i + 1]                     *)
(* buf     the ByteBuf object: superByteOffset (super.byteOffset, where the *)
(*         view starts in the memory), byteLength (this.byteLength) and     *)
(*         byteOffset (this.#byteOffset, the cursor)                        *)
(* last    the call that produced this state: its name, arguments, the      *)
(*         object and memory before it, and its outcome                     *)
(* ops     how many calls were made                                         *)
(* other   a second ByteBuf over the same memory that the program holds     *)
(*         while it calls buf, <<>> when it holds none                      *)
(***************************************************************************)
EXTENDS Integers, Sequences, FiniteSets, TLC

VARIABLES buffer, buf, last, ops, other

vars == <<buffer, buf, last, ops, other>>

\* the record last keeps of a call: the operation (get, read, set, write,
\* from, skip, reset, clear), the accessor family, the exception that ended
\* it ("none" when it returned), its arguments, the memory and the object
\* before it, and the value it returned
Called(op, type, err, args, mem, b, value) ==
    [op |-> op, type |-> type, err |-> err, args |-> args, buffer |-> mem,
     buf |-> b, value |-> value]

(***************************************************************************)
(* Bounds of the model.                                                     *)
(***************************************************************************)
\* calls per behaviour
MaxOps == 1

(***************************************************************************)
(* JavaScript numbers and 32-bit words.                                     *)
(*                                                                          *)
(* An integer Number (or BigInt) is a record [neg, mag]: its sign and its   *)
(* magnitude as a sequence of bits, least significant first, without        *)
(* leading zeros, so that equal numbers are equal records (zero is          *)
(* [neg |-> FALSE, mag |-> <<>>]).  The bitwise operators of the language   *)
(* work on 32-bit words: a word is a sequence of 32 bits, bit i of the word *)
(* at index i + 1.                                                          *)
(***************************************************************************)
\* the sequence given by the rule s, as the tuple of its elements
Tuple(s) == s \o <<>>

RECURSIVE NatBits(_)
NatBits(n) ==
    IF n = 0 THEN <<>> ELSE <<n % 2>> \o NatBits(n \div 2)

\* the Number n, for n within TLC's own integers and n > -2^31
Num(n) ==
    IF n < 0 THEN [neg |-> TRUE, mag |-> NatBits(-n)]
    ELSE [neg |-> FALSE, mag |-> NatBits(n)]

RECURSIVE Trim(_)
Trim(bits) ==
    IF Len(bits) = 0 THEN <<>>
    ELSE IF bits[Len(bits)] = 0 THEN Trim(SubSeq(bits, 1, Len(bits) - 1))
    ELSE SubSeq(bits, 1, Len(bits))

\* two's complement negation of a bit sequence: the bits up to and including
\* the lowest set bit stay, the others flip
NegBits(bits) ==
    Tuple([i \in 1..Len(bits) |->
        IF \E j \in 1..Len(bits) : j < i /\ bits[j] = 1
        THEN 1 - bits[i] ELSE bits[i]])

\* the integer z modulo 2^n, as n bits (two's complement)
TwoBits(z, n) ==
    LET m == Tuple([i \in 1..n |-> IF i <= Len(z.mag) THEN z.mag[i] ELSE 0])
    IN  IF z.neg THEN NegBits(m) ELSE m

\* n bits read as a signed (two's complement) integer
FromSigned(bits) ==
    IF bits[Len(bits)] = 1 THEN [neg |-> TRUE, mag |-> Trim(NegBits(bits))]
    ELSE [neg |-> FALSE, mag |-> Trim(bits)]

\* n bits read as an unsigned integer
FromUnsigned(bits) == [neg |-> FALSE, mag |-> Trim(bits)]

\* ToInt32 / ToUint32: the number modulo 2^32, as a word
ToWord(z) == TwoBits(z, 32)

\* a << s: the shift count is taken modulo 32
ShiftLeft(w, s) ==
    LET n == s % 32
    IN  Tuple([i \in 1..32 |-> IF i > n THEN w[i - n] ELSE 0])

\* a >> s: sign-propagating
ShiftRight(w, s) ==
    LET n == s % 32
    IN  Tuple([i \in 1..32 |-> IF i + n <= 32 THEN w[i + n] ELSE w[32]])

\* a >>> s: zero-filling
ShiftRightUnsigned(w, s) ==
    LET n == s % 32
    IN  Tuple([i \in 1..32 |-> IF i + n <= 32 THEN w[i + n] ELSE 0])

BitOr(a, b) == Tuple([i \in 1..32 |-> IF a[i] = 1 \/ b[i] = 1 THEN 1 ELSE 0])

BitAnd(a, b) == Tuple([i \in 1..32 |-> IF a[i] = 1 /\ b[i] = 1 THEN 1 ELSE 0])

BitXor(a, b) == Tuple([i \in 1..32 |-> IF a[i] # b[i] THEN 1 ELSE 0])

\* a byte (or any integer 0..2^30) as a word
NatWord(n) ==
    Tuple([i \in 1..32 |->
              IF i <= 31 THEN (n \div (2 ^ (i - 1))) % 2 ELSE 0])

ZeroWord == Tuple([i \in 1..32 |-> 0])

\* the low eight bits of a bit sequence from index i on, as a byte 0..255
ByteAt(bits, i) ==
    bits[i] + 2 * bits[i + 1] + 4 * bits[i + 2] + 8 * bits[i + 3]
        + 16 * bits[i + 4] + 32 * bits[i + 5] + 64 * bits[i + 6]
        + 128 * bits[i + 7]

\* bytes, least significant first, as bits, least significant first
BytesToBits(bytes) ==
    Tuple([j \in 1..(8 * Len(bytes)) |->
        (bytes[((j - 1) \div 8) + 1] \div (2 ^ ((j - 1) % 8))) % 2])

\* bits as n bytes, least significant first
BitsToBytes(bits, n) == Tuple([i \in 1..n |-> ByteAt(bits, 8 * (i - 1) + 1)])

Reverse(s) == Tuple([i \in 1..Len(s) |-> s[Len(s) + 1 - i]])


(***************************************************************************)
(* Calls and their outcomes.                                                *)
(*                                                                          *)
(* A method is an operator of the memory mem, the object b and its          *)
(* arguments.  Its outcome is a record: the memory and the cursor when the  *)
(* call is over, err (the exception that ended it, "none" when it           *)
(* returned), and the value returned.  An optional argument is <<>> when    *)
(* omitted and <<x>> when given.                                            *)
(***************************************************************************)
Return(mem, b, value) ==
    [buffer |-> mem, byteOffset |-> b.byteOffset, err |-> "none",
     value |-> value]

Throw(mem, b, e) ==
    [buffer |-> mem, byteOffset |-> b.byteOffset, err |-> e,
     value |-> "none"]

\* the object b after the call whose outcome is r
After(b, r) == [b EXCEPT !.byteOffset = r.byteOffset]

\* #byteOffset as a field of the class, one cursor for every object: the
\* object o after a call on another object whose outcome is r
BystanderSharing(o, r) ==
    IF o = <<>> THEN o ELSE [o EXCEPT !.byteOffset = r.byteOffset]

\* #byteOffset is a field of the instance: an object o that the call was
\* not made on keeps its cursor
Bystander(o, r) == o

\* const { value, byteLength } = r; this.#byteOffset += byteLength;
\* return value: the end of a streaming read, r the outcome of its
\* positional form
AdvanceByResult(r) ==
    IF r.err # "none" THEN r
    ELSE [r EXCEPT !.byteOffset = @ + r.value.byteLength,
                   !.value = r.value.value]

\* const byteLength = r; this.#byteOffset += byteLength: the end of a
\* streaming write that returns nothing
AdvanceByLength(r) ==
    IF r.err # "none" THEN r
    ELSE [r EXCEPT !.byteOffset = @ + r.value, !.value = "undefined"]

\* an omitted littleEndian taken as little-endian
IsLittleEndianUnlessGiven(littleEndian) == littleEndian # <<FALSE>>

IsLittleEndian(littleEndian) == littleEndian = <<TRUE>>

(***************************************************************************)
(* DataView, the class ByteBuf extends: bounds-checked access to the bytes  *)
(* of the view, byteOffset counted from the view's start.  A failed check   *)
(* is a RangeError, the specification's OutOfBounds.                        *)
(***************************************************************************)
InView(b, byteOffset, n) ==
    byteOffset >= 0 /\ byteOffset + n <= b.byteLength

\* the n bytes of the view from byteOffset on, in memory order
ViewBytes(mem, b, byteOffset, n) ==
    Tuple([i \in 1..n |-> mem[b.superByteOffset + byteOffset + i]])

\* mem with bytes stored from the memory index at on
PutBytes(mem, at, bytes) ==
    Tuple([i \in 1..Len(mem) |->
        IF i > at /\ i <= at + Len(bytes) THEN bytes[i - at] ELSE mem[i]])

\* the fixed-width types of DataView: width in bytes, and for the floats the
\* widths of the exponent and the fraction
Width(type) ==
    CASE type \in {"Int8", "Uint8"} -> 1
      [] type \in {"Int16", "Uint16"} -> 2
      [] type \in {"Int32", "Uint32", "Float32"} -> 4
      [] type \in {"Float64", "BigInt64", "BigUint64"} -> 8

ExponentBits(type) == IF type = "Float32" THEN 8 ELSE 11

FractionBits(type) == IF type = "Float32" THEN 23 ELSE 52

RECURSIVE BitsToNat(_)
BitsToNat(bits) ==
    IF Len(bits) = 0 THEN 0
    ELSE bits[1] + 2 * BitsToNat(SubSeq(bits, 2, Len(bits)))

\* A float is the record of its fields; every NaN is the one value NaN.
NaN == [nan |-> TRUE, sign |-> 0, exp |-> 0, frac |-> <<>>]

FloatFromBits(type, bits) ==
    LET f == FractionBits(type)
        e == ExponentBits(type)
        frac == Trim(SubSeq(bits, 1, f))
        exp == BitsToNat(SubSeq(bits, f + 1, f + e))
    IN  IF exp = 2 ^ e - 1 /\ frac # <<>> THEN NaN
        ELSE [nan |-> FALSE, sign |-> bits[f + e + 1], exp |-> exp,
              frac |-> frac]

FloatToBits(type, v) ==
    LET f == FractionBits(type)
        e == ExponentBits(type)
    IN  Tuple([i \in 1..(f + e + 1) |->
            IF v.nan THEN (IF i >= f /\ i <= f + e THEN 1 ELSE 0)
            ELSE IF i <= f THEN (IF i <= Len(v.frac) THEN v.frac[i] ELSE 0)
            ELSE IF i <= f + e THEN (v.exp \div (2 ^ (i - f - 1))) % 2
            ELSE v.sign])

\* the value the bits (least significant first) denote
Decode(type, bits) ==
    CASE type \in {"Int8", "Int16", "Int32", "BigInt64"} -> FromSigned(bits)
      [] type \in {"Uint8", "Uint16", "Uint32", "BigUint64"} ->
            FromUnsigned(bits)
      [] type \in {"Float32", "Float64"} -> FloatFromBits(type, bits)

\* the bits stored for value: an integer is taken modulo 2^(8 * width)
Encode(type, value) ==
    IF type \in {"Float32", "Float64"} THEN FloatToBits(type, value)
    ELSE TwoBits(value, 8 * Width(type))

\* DataView.prototype.get<type>(byteOffset, littleEndian)
DataViewGet(mem, b, type, byteOffset, littleEndian) ==
    IF ~InView(b, byteOffset, Width(type)) THEN Throw(mem, b, "OutOfBounds")
    ELSE LET bytes == ViewBytes(mem, b, byteOffset, Width(type))
             lsbFirst == IF IsLittleEndian(littleEndian) THEN bytes
                         ELSE Reverse(bytes)
         IN  Return(mem, b, Decode(type, BytesToBits(lsbFirst)))

\* DataViewSet with its bounds those of the memory, not of the view
DataViewSetInMemory(mem, b, type, byteOffset, value, littleEndian) ==
    IF \/ b.superByteOffset + byteOffset < 0
       \/ b.superByteOffset + byteOffset + Width(type) > Len(mem)
    THEN Throw(mem, b, "OutOfBounds")
    ELSE LET lsbFirst == BitsToBytes(Encode(type, value), Width(type))
             bytes == IF IsLittleEndian(littleEndian) THEN lsbFirst
                      ELSE Reverse(lsbFirst)
         IN  Return(PutBytes(mem, b.superByteOffset + byteOffset, bytes), b,
                    "undefined")

\* DataView.prototype.set<type>(byteOffset, value, littleEndian)
DataViewSet(mem, b, type, byteOffset, value, littleEndian) ==
    IF ~InView(b, byteOffset, Width(type)) THEN Throw(mem, b, "OutOfBounds")
    ELSE LET lsbFirst == BitsToBytes(Encode(type, value), Width(type))
             bytes == IF IsLittleEndian(littleEndian) THEN lsbFirst
                      ELSE Reverse(lsbFirst)
         IN  Return(PutBytes(mem, b.superByteOffset + byteOffset, bytes), b,
                    "undefined")


(***************************************************************************)
(* Number(bigint) and BigInt(number), as getInt64 and setInt64 use them.    *)
(* A Number is a double: an integer has at most 53 significant bits, and    *)
(* Number() rounds to the nearest such integer, ties to even.               *)
(***************************************************************************)
\* bits + 1, one bit longer when every bit was set
Increment(bits) ==
    LET n == Len(bits)
        carried == Tuple([i \in 1..n |->
                       IF \A j \in 1..n : j < i => bits[j] = 1
                       THEN 1 - bits[i] ELSE bits[i]])
    IN  IF \A j \in 1..n : bits[j] = 1 THEN carried \o <<1>> ELSE carried

\* Number(value) of the BigInt value
ToNumber(value) ==
    LET n == Len(value.mag)
        d == n - 53
        kept == SubSeq(value.mag, d + 1, n)
        up == /\ value.mag[d] = 1
              /\ \/ kept[1] = 1
                 \/ \E j \in 1..n : j < d /\ value.mag[j] = 1
        rounded == IF up THEN Increment(kept) ELSE kept
    IN  IF n <= 53 THEN value
        ELSE [neg |-> value.neg, mag |-> Tuple([i \in 1..d |-> 0]) \o rounded]

\* BigInt(value) of the integer Number value: the same integer
ToBigInt(value) == [neg |-> value.neg, mag |-> value.mag]

(***************************************************************************)
(* ByteBuf: the fixed-width accessors (src/bytebuf.ts, getBool to           *)
(* writeUint64).                                                            *)
(***************************************************************************)
\* this.#byteOffset++ : the object with the cursor moved on by one
PostIncrement(b) == [b EXCEPT !.byteOffset = @ + 1]

getInt8(mem, b, byteOffset) == DataViewGet(mem, b, "Int8", byteOffset, <<>>)

readInt8(mem, b) == getInt8(mem, PostIncrement(b), b.byteOffset)

setInt8(mem, b, byteOffset, value) ==
    DataViewSet(mem, b, "Int8", byteOffset, value, <<>>)

writeInt8(mem, b, value) ==
    setInt8(mem, PostIncrement(b), b.byteOffset, value)

\* a boolean is a signed byte: nonzero is true; true is stored as 1
getBool(mem, b, byteOffset) ==
    LET r == getInt8(mem, b, byteOffset)
    IN  IF r.err # "none" THEN r ELSE [r EXCEPT !.value = (@ # Num(0))]

readBool(mem, b) ==
    LET r == getInt8(mem, PostIncrement(b), b.byteOffset)
    IN  IF r.err # "none" THEN r ELSE [r EXCEPT !.value = (@ # Num(0))]

setBool(mem, b, byteOffset, value) ==
    DataViewSet(mem, b, "Int8", byteOffset,
                IF value THEN Num(1) ELSE Num(0), <<>>)

writeBool(mem, b, value) ==
    setInt8(mem, PostIncrement(b), b.byteOffset,
            IF value THEN Num(1) ELSE Num(0))

getUint8(mem, b, byteOffset) == DataViewGet(mem, b, "Uint8", byteOffset, <<>>)

readUint8(mem, b) == getUint8(mem, PostIncrement(b), b.byteOffset)

setUint8(mem, b, byteOffset, value) ==
    DataViewSet(mem, b, "Uint8", byteOffset, value, <<>>)

writeUint8(mem, b, value) ==
    setUint8(mem, PostIncrement(b), b.byteOffset, value)

getInt16(mem, b, byteOffset, littleEndian) ==
    DataViewGet(mem, b, "Int16", byteOffset, littleEndian)

readInt16(mem, b, littleEndian) ==
    LET r == getInt16(mem, b, b.byteOffset, littleEndian)
    IN  IF r.err # "none" THEN r ELSE [r EXCEPT !.byteOffset = @ + 2]

\* setInt16 moving the cursor past the bytes it stored, as writeInt16 does
setInt16Advancing(mem, b, byteOffset, value, littleEndian) ==
    LET r == DataViewSet(mem, b, "Int16", byteOffset, value, littleEndian)
    IN  IF r.err # "none" THEN r ELSE [r EXCEPT !.byteOffset = @ + 2]

setInt16(mem, b, byteOffset, value, littleEndian) ==
    DataViewSet(mem, b, "Int16", byteOffset, value, littleEndian)

writeInt16(mem, b, value, littleEndian) ==
    LET r == setInt16(mem, b, b.byteOffset, value, littleEndian)
    IN  IF r.err # "none" THEN r ELSE [r EXCEPT !.byteOffset = @ + 2]

getUint16(mem, b, byteOffset, littleEndian) ==
    DataViewGet(mem, b, "Uint16", byteOffset, littleEndian)

readUint16(mem, b, littleEndian) ==
    LET r == getUint16(mem, b, b.byteOffset, littleEndian)
    IN  IF r.err # "none" THEN r ELSE [r EXCEPT !.byteOffset = @ + 2]

setUint16(mem, b, byteOffset, value, littleEndian) ==
    DataViewSet(mem, b, "Uint16", byteOffset, value, littleEndian)

writeUint16(mem, b, value, littleEndian) ==
    LET r == setUint16(mem, b, b.byteOffset, value, littleEndian)
    IN  IF r.err # "none" THEN r ELSE [r EXCEPT !.byteOffset = @ + 2]

getInt32(mem, b, byteOffset, littleEndian) ==
    DataViewGet(mem, b, "Int32", byteOffset, littleEndian)

\* readInt32 advancing by the width of an Int16
readInt32ByTwo(mem, b, littleEndian) ==
    LET r == getInt32(mem, b, b.byteOffset, littleEndian)
    IN  IF r.err # "none" THEN r ELSE [r EXCEPT !.byteOffset = @ + 2]

readInt32(mem, b, littleEndian) ==
    LET r == getInt32(mem, b, b.byteOffset, littleEndian)
    IN  IF r.err # "none" THEN r ELSE [r EXCEPT !.byteOffset = @ + 4]

setInt32(mem, b, byteOffset, value, littleEndian) ==
    DataViewSet(mem, b, "Int32", byteOffset, value, littleEndian)

writeInt32(mem, b, value, littleEndian) ==
    LET r == setInt32(mem, b, b.byteOffset, value, littleEndian)
    IN  IF r.err # "none" THEN r ELSE [r EXCEPT !.byteOffset = @ + 4]

getUint32(mem, b, byteOffset, littleEndian) ==
    DataViewGet(mem, b, "Uint32", byteOffset, littleEndian)

readUint32(mem, b, littleEndian) ==
    LET r == getUint32(mem, b, b.byteOffset, littleEndian)
    IN  IF r.err # "none" THEN r ELSE [r EXCEPT !.byteOffset = @ + 4]

setUint32(mem, b, byteOffset, value, littleEndian) ==
    DataViewSet(mem, b, "Uint32", byteOffset, value, littleEndian)

writeUint32(mem, b, value, littleEndian) ==
    LET r == setUint32(mem, b, b.byteOffset, value, littleEndian)
    IN  IF r.err # "none" THEN r ELSE [r EXCEPT !.byteOffset = @ + 4]

getFloat32(mem, b, byteOffset, littleEndian) ==
    DataViewGet(mem, b, "Float32", byteOffset, littleEndian)

readFloat32(mem, b, littleEndian) ==
    LET r == getFloat32(mem, b, b.byteOffset, littleEndian)
    IN  IF r.err # "none" THEN r ELSE [r EXCEPT !.byteOffset = @ + 4]

setFloat32(mem, b, byteOffset, value, littleEndian) ==
    DataViewSet(mem, b, "Float32", byteOffset, value, littleEndian)

writeFloat32(mem, b, value, littleEndian) ==
    LET r == setFloat32(mem, b, b.byteOffset, value, littleEndian)
    IN  IF r.err # "none" THEN r ELSE [r EXCEPT !.byteOffset = @ + 4]

getFloat64(mem, b, byteOffset, littleEndian) ==
    DataViewGet(mem, b, "Float64", byteOffset, littleEndian)

readFloat64(mem, b, littleEndian) ==
    LET r == getFloat64(mem, b, b.byteOffset, littleEndian)
    IN  IF r.err # "none" THEN r ELSE [r EXCEPT !.byteOffset = @ + 8]

setFloat64(mem, b, byteOffset, value, littleEndian) ==
    DataViewSet(mem, b, "Float64", byteOffset, value, littleEndian)

writeFloat64(mem, b, value, littleEndian) ==
    LET r == setFloat64(mem, b, b.byteOffset, value, littleEndian)
    IN  IF r.err # "none" THEN r ELSE [r EXCEPT !.byteOffset = @ + 8]

getBigInt64(mem, b, byteOffset, littleEndian) ==
    DataViewGet(mem, b, "BigInt64", byteOffset, littleEndian)

readBigInt64(mem, b, littleEndian) ==
    LET r == getBigInt64(mem, b, b.byteOffset, littleEndian)
    IN  IF r.err # "none" THEN r ELSE [r EXCEPT !.byteOffset = @ + 8]

setBigInt64(mem, b, byteOffset, value, littleEndian) ==
    DataViewSet(mem, b, "BigInt64", byteOffset, value, littleEndian)

writeBigInt64(mem, b, value, littleEndian) ==
    LET r == setBigInt64(mem, b, b.byteOffset, value, littleEndian)
    IN  IF r.err # "none" THEN r ELSE [r EXCEPT !.byteOffset = @ + 8]

getBigUint64(mem, b, byteOffset, littleEndian) ==
    DataViewGet(mem, b, "BigUint64", byteOffset, littleEndian)

readBigUint64(mem, b, littleEndian) ==
    LET r == getBigUint64(mem, b, b.byteOffset, littleEndian)
    IN  IF r.err # "none" THEN r ELSE [r EXCEPT !.byteOffset = @ + 8]

setBigUint64(mem, b, byteOffset, value, littleEndian) ==
    DataViewSet(mem, b, "BigUint64", byteOffset, value, littleEndian)

writeBigUint64(mem, b, value, littleEndian) ==
    LET r == setBigUint64(mem, b, b.byteOffset, value, littleEndian)
    IN  IF r.err # "none" THEN r ELSE [r EXCEPT !.byteOffset = @ + 8]

getInt64(mem, b, byteOffset, littleEndian) ==
    LET r == getBigInt64(mem, b, byteOffset, littleEndian)
    IN  IF r.err # "none" THEN r ELSE [r EXCEPT !.value = ToNumber(@)]

readInt64(mem, b, littleEndian) ==
    LET r == getInt64(mem, b, b.byteOffset, littleEndian)
    IN  IF r.err # "none" THEN r ELSE [r EXCEPT !.byteOffset = @ + 8]

setInt64(mem, b, byteOffset, value, littleEndian) ==
    setBigInt64(mem, b, byteOffset, ToBigInt(value), littleEndian)

writeInt64(mem, b, value, littleEndian) ==
    LET r == setInt64(mem, b, b.byteOffset, value, littleEndian)
    IN  IF r.err # "none" THEN r ELSE [r EXCEPT !.byteOffset = @ + 8]

getUint64(mem, b, byteOffset, littleEndian) ==
    LET r == getBigUint64(mem, b, byteOffset, littleEndian)
    IN  IF r.err # "none" THEN r ELSE [r EXCEPT !.value = ToNumber(@)]

readUint64(mem, b, littleEndian) ==
    LET r == getUint64(mem, b, b.byteOffset, littleEndian)
    IN  IF r.err # "none" THEN r ELSE [r EXCEPT !.byteOffset = @ + 8]

setUint64(mem, b, byteOffset, value, littleEndian) ==
    setBigUint64(mem, b, byteOffset, ToBigInt(value), littleEndian)

writeUint64(mem, b, value, littleEndian) ==
    LET r == setUint64(mem, b, b.byteOffset, value, littleEndian)
    IN  IF r.err # "none" THEN r ELSE [r EXCEPT !.byteOffset = @ + 8]


(***************************************************************************)
(* ByteBuf: the variable-length integers (getVarInt to writeVarZint).       *)
(* The thrown RangeError("VarInt must be between 1 and ... bytes.") is the  *)
(* specification's LengthExceeded.                                          *)
(***************************************************************************)
\* maxByteLength: number = 10
DefaultMaxByteLength == 10

MaxByteLengthOr10(maxByteLength) ==
    IF maxByteLength = <<>> THEN DefaultMaxByteLength ELSE maxByteLength[1]

\* the loop of getVarInt running while byteLength <= maxByteLength
RECURSIVE getVarIntLoopInclusive(_, _, _, _, _, _, _)
getVarIntLoopInclusive(mem, b, byteOffset, max, value, byteLength, bitShift) ==
    IF ~(byteLength <= max) THEN Throw(mem, b, "LengthExceeded")
    ELSE LET g == getUint8(mem, b, byteOffset + byteLength)
             byte == ToWord(g.value)
             value1 == BitOr(value,
                             ShiftLeft(BitAnd(byte, NatWord(127)), bitShift))
         IN  IF g.err # "none" THEN g
             ELSE IF BitAnd(byte, NatWord(128)) = ZeroWord
             THEN Return(mem, b, [value |-> FromSigned(value1),
                                  byteLength |-> byteLength + 1])
             ELSE getVarIntLoopInclusive(mem, b, byteOffset, max, value1,
                                         byteLength + 1, bitShift + 7)

\* the for loop of getVarInt, entered with value, byteLength and bitShift
RECURSIVE getVarIntLoop(_, _, _, _, _, _, _)
getVarIntLoop(mem, b, byteOffset, max, value, byteLength, bitShift) ==
    IF ~(byteLength < max) THEN Throw(mem, b, "LengthExceeded")
    ELSE LET g == getUint8(mem, b, byteOffset + byteLength)
             byte == ToWord(g.value)
             value1 == BitOr(value,
                             ShiftLeft(BitAnd(byte, NatWord(127)), bitShift))
         IN  IF g.err # "none" THEN g
             ELSE IF BitAnd(byte, NatWord(128)) = ZeroWord
             THEN Return(mem, b, [value |-> FromSigned(value1),
                                  byteLength |-> byteLength + 1])
             ELSE getVarIntLoop(mem, b, byteOffset, max, value1,
                                byteLength + 1, bitShift + 7)

\* getVarInt returning its value as an unsigned number
getVarIntUnsigned(mem, b, byteOffset, maxByteLength) ==
    LET r == getVarIntLoop(mem, b, byteOffset,
                           MaxByteLengthOr10(maxByteLength), ZeroWord, 0, 0)
    IN  IF r.err # "none" THEN r
        ELSE [r EXCEPT !.value.value = FromUnsigned(ToWord(@))]

getVarInt(mem, b, byteOffset, maxByteLength) ==
    getVarIntLoop(mem, b, byteOffset, MaxByteLengthOr10(maxByteLength),
                  ZeroWord, 0, 0)

\* readVarInt moving the cursor past the bytes a failed read looked at
readVarIntAdvancing(mem, b, maxByteLength) ==
    LET r == getVarInt(mem, b, b.byteOffset, maxByteLength)
    IN  IF r.err = "LengthExceeded"
        THEN [r EXCEPT !.byteOffset = @ + MaxByteLengthOr10(maxByteLength)]
        ELSE IF r.err # "none" THEN r
        ELSE [r EXCEPT !.byteOffset = @ + r.value.byteLength,
                       !.value = r.value.value]

readVarInt(mem, b, maxByteLength) ==
    AdvanceByResult(getVarInt(mem, b, b.byteOffset, maxByteLength))

\* the loop of setVarInt shifting with >> (sign-propagating) for >>>
RECURSIVE setVarIntLoopSigned(_, _, _, _, _, _)
setVarIntLoopSigned(mem, b, byteOffset, value, max, byteLength) ==
    IF ~(byteLength <= max) THEN Throw(mem, b, "LengthExceeded")
    ELSE LET low == BitAnd(value, NatWord(127))
             value1 == ShiftRight(value, 7)
             byte == IF value1 # ZeroWord THEN BitOr(low, NatWord(128))
                     ELSE low
             s == setUint8(mem, b, byteOffset, FromSigned(byte))
         IN  IF s.err # "none" THEN s
             ELSE IF value1 = ZeroWord THEN Return(s.buffer, b, byteLength)
             ELSE setVarIntLoopSigned(s.buffer, b, byteOffset + 1, value1,
                                      max, byteLength + 1)

\* the for loop of setVarInt, entered with byteOffset, value and byteLength
RECURSIVE setVarIntLoop(_, _, _, _, _, _)
setVarIntLoop(mem, b, byteOffset, value, max, byteLength) ==
    IF ~(byteLength <= max) THEN Throw(mem, b, "LengthExceeded")
    ELSE LET low == BitAnd(value, NatWord(127))
             value1 == ShiftRightUnsigned(value, 7)
             byte == IF value1 # ZeroWord THEN BitOr(low, NatWord(128))
                     ELSE low
             s == setUint8(mem, b, byteOffset, FromSigned(byte))
         IN  IF s.err # "none" THEN s
             ELSE IF value1 = ZeroWord THEN Return(s.buffer, b, byteLength)
             ELSE setVarIntLoop(s.buffer, b, byteOffset + 1, value1, max,
                                byteLength + 1)

setVarInt(mem, b, byteOffset, value, maxByteLength) ==
    setVarIntLoop(mem, b, byteOffset, ToWord(value),
                  MaxByteLengthOr10(maxByteLength), 1)

writeVarInt(mem, b, value, maxByteLength) ==
    AdvanceByLength(setVarInt(mem, b, b.byteOffset, value, maxByteLength))

\* value >>> 0
getVarUint(mem, b, byteOffset, maxByteLength) ==
    LET r == getVarInt(mem, b, byteOffset, maxByteLength)
    IN  IF r.err # "none" THEN r
        ELSE [r EXCEPT !.value.value = FromUnsigned(ToWord(@))]

readVarUint(mem, b, maxByteLength) ==
    AdvanceByResult(getVarUint(mem, b, b.byteOffset, maxByteLength))

setVarUint(mem, b, byteOffset, value, maxByteLength) ==
    setVarInt(mem, b, byteOffset, FromUnsigned(ToWord(value)), maxByteLength)

writeVarUint(mem, b, value, maxByteLength) ==
    AdvanceByLength(setVarUint(mem, b, b.byteOffset, value, maxByteLength))

\* (value >> 1) ^ -(value & 1)
ZigzagDecode(value) ==
    LET w == ToWord(value)
    IN  FromSigned(BitXor(ShiftRight(w, 1), NegBits(BitAnd(w, NatWord(1)))))

\* the transform with the zero-filling shift: (value >>> 31) ^ (value << 1)
ZigzagEncodeLogical(value) ==
    LET w == ToWord(value)
    IN  FromSigned(BitXor(ShiftRightUnsigned(w, 31), ShiftLeft(w, 1)))

\* (value >> 31) ^ (value << 1)
ZigzagEncode(value) ==
    LET w == ToWord(value)
    IN  FromSigned(BitXor(ShiftRight(w, 31), ShiftLeft(w, 1)))

getVarZint(mem, b, byteOffset, maxByteLength) ==
    LET r == getVarInt(mem, b, byteOffset, maxByteLength)
    IN  IF r.err # "none" THEN r
        ELSE [r EXCEPT !.value.value = ZigzagDecode(@)]

readVarZint(mem, b, maxByteLength) ==
    AdvanceByResult(getVarZint(mem, b, b.byteOffset, maxByteLength))

setVarZint(mem, b, byteOffset, value, maxByteLength) ==
    setVarInt(mem, b, byteOffset, ZigzagEncode(value), maxByteLength)

writeVarZint(mem, b, value, maxByteLength) ==
    AdvanceByLength(setVarZint(mem, b, b.byteOffset, value, maxByteLength))


(***************************************************************************)
(* Typed arrays: new Uint8Array(buffer, byteOffset, length) and             *)
(* new Uint16Array(buffer, byteOffset, length), views of the memory itself. *)
(* byteOffset counts from the start of the memory.  An array is the record  *)
(* of where it lies: byteOffset, length (in elements) and byteLength.  A    *)
(* RangeError of the constructor is the specification's OutOfBounds.        *)
(***************************************************************************)
TypedArray(mem, elementSize, byteOffset, length) ==
    LET newByteLength == IF length = <<>> THEN Len(mem) - byteOffset
                         ELSE length[1] * elementSize
        bad == \/ byteOffset < 0
               \/ byteOffset % elementSize # 0
               \/ length # <<>> /\ length[1] < 0
               \/ length = <<>> /\ Len(mem) % elementSize # 0
               \/ length = <<>> /\ newByteLength < 0
               \/ length # <<>> /\ byteOffset + newByteLength > Len(mem)
    IN  IF bad THEN [err |-> "OutOfBounds"]
        ELSE [err |-> "none", byteOffset |-> byteOffset,
              length |-> newByteLength \div elementSize,
              byteLength |-> newByteLength]

\* the array of an outcome of TypedArray, without its err field
ArrayOf(a) ==
    [byteOffset |-> a.byteOffset, length |-> a.length,
     byteLength |-> a.byteLength]

\* the bytes an array shows
ArrayBytes(mem, a) == Tuple([i \in 1..a.byteLength |-> mem[a.byteOffset + i]])

(***************************************************************************)
(* ByteBuf: the arrays (getUint8Array to writeUint16Array).  An array given *)
(* by the caller is the sequence of its bytes.                              *)
(***************************************************************************)
\* getUint8Array taking byteOffset from the start of the memory, not of
\* the view
getUint8ArrayUnbased(mem, b, byteOffset, byteLength) ==
    LET a == TypedArray(mem, 1, byteOffset, byteLength)
    IN  IF a.err # "none" THEN Throw(mem, b, a.err)
        ELSE Return(mem, b, ArrayOf(a))

getUint8Array(mem, b, byteOffset, byteLength) ==
    LET a == TypedArray(mem, 1, b.superByteOffset + byteOffset, byteLength)
    IN  IF a.err # "none" THEN Throw(mem, b, a.err)
        ELSE Return(mem, b, ArrayOf(a))

readUint8Array(mem, b, byteLength) ==
    LET r == getUint8Array(mem, b, b.byteOffset, byteLength)
    IN  IF r.err # "none" THEN r
        ELSE [r EXCEPT !.byteOffset = @ + r.value.byteLength]

\* getUint8Array(byteOffset, value.byteLength).set(value)
setUint8Array(mem, b, byteOffset, value) ==
    LET r == getUint8Array(mem, b, byteOffset, <<Len(value)>>)
    IN  IF r.err # "none" THEN r
        ELSE Return(PutBytes(mem, r.value.byteOffset, value), b, "undefined")

writeUint8Array(mem, b, value) ==
    LET r == setUint8Array(mem, b, b.byteOffset, value)
    IN  IF r.err # "none" THEN r
        ELSE [r EXCEPT !.byteOffset = @ + Len(value)]

getUint16Array(mem, b, byteOffset, byteLength) ==
    LET length == IF byteLength # <<>> THEN <<byteLength[1] \div 2>>
                  ELSE byteLength
        a == TypedArray(mem, 2, b.superByteOffset + byteOffset, length)
    IN  IF a.err # "none" THEN Throw(mem, b, a.err)
        ELSE Return(mem, b, ArrayOf(a))

readUint16Array(mem, b, byteLength) ==
    LET r == getUint16Array(mem, b, b.byteOffset, byteLength)
    IN  IF r.err # "none" THEN r
        ELSE [r EXCEPT !.byteOffset = @ + r.value.byteLength]

\* getUint16Array(byteOffset, value.byteLength).set(value)
setUint16Array(mem, b, byteOffset, value) ==
    LET r == getUint16Array(mem, b, byteOffset, <<Len(value)>>)
    IN  IF r.err # "none" THEN r
        ELSE Return(PutBytes(mem, r.value.byteOffset, value), b, "undefined")

writeUint16Array(mem, b, value) ==
    LET r == setUint16Array(mem, b, b.byteOffset, value)
    IN  IF r.err # "none" THEN r
        ELSE [r EXCEPT !.byteOffset = @ + Len(value)]


(***************************************************************************)
(* Text.  A string is the sequence of its code points (no lone             *)
(* surrogates); its length counts UTF-16 code units.  TextEncoder encodes   *)
(* UTF-8; TextDecoder decodes the encoding it is constructed for, replaces  *)
(* every malformed sequence by U+FFFD and drops a leading byte order mark.  *)
(***************************************************************************)
Replacement == 65533

RECURSIVE StringLength(_)
StringLength(s) ==
    IF Len(s) = 0 THEN 0
    ELSE (IF s[1] > 65535 THEN 2 ELSE 1) + StringLength(Tail(s))

\* the UTF-8 bytes of one code point
Utf8(cp) ==
    IF cp < 128 THEN <<cp>>
    ELSE IF cp < 2048 THEN <<192 + (cp \div 64), 128 + (cp % 64)>>
    ELSE IF cp < 65536
    THEN <<224 + (cp \div 4096), 128 + ((cp \div 64) % 64), 128 + (cp % 64)>>
    ELSE <<240 + (cp \div 262144), 128 + ((cp \div 4096) % 64),
           128 + ((cp \div 64) % 64), 128 + (cp % 64)>>

\* TextEncoder.prototype.encode(s)
RECURSIVE TextEncode(_)
TextEncode(s) ==
    IF Len(s) = 0 THEN <<>> ELSE Utf8(s[1]) \o TextEncode(Tail(s))

\* TextEncoder.prototype.encodeInto(s, destination): the bytes written into
\* a destination of n bytes; a code point is written whole or not at all
RECURSIVE TextEncodeInto(_, _)
TextEncodeInto(s, n) ==
    IF Len(s) = 0 \/ Len(Utf8(s[1])) > n THEN <<>>
    ELSE Utf8(s[1]) \o TextEncodeInto(Tail(s), n - Len(Utf8(s[1])))

\* the UTF-8 decoder, from byte i of bytes on
RECURSIVE Utf8DecodeFrom(_, _)
Utf8DecodeFrom(bytes, i) ==
    IF i > Len(bytes) THEN <<>>
    ELSE
      LET b0 == bytes[i]
          needed == IF b0 >= 194 /\ b0 <= 223 THEN 1
                    ELSE IF b0 >= 224 /\ b0 <= 239 THEN 2
                    ELSE IF b0 >= 240 /\ b0 <= 244 THEN 3
                    ELSE 0
          lower == IF b0 = 224 THEN 160 ELSE IF b0 = 240 THEN 144 ELSE 128
          upper == IF b0 = 237 THEN 159 ELSE IF b0 = 244 THEN 143 ELSE 191
          ok1 == i + 1 <= Len(bytes) /\ bytes[i + 1] >= lower
                 /\ bytes[i + 1] <= upper
          ok2 == ok1 /\ i + 2 <= Len(bytes) /\ bytes[i + 2] >= 128
                 /\ bytes[i + 2] <= 191
          ok3 == ok2 /\ i + 3 <= Len(bytes) /\ bytes[i + 3] >= 128
                 /\ bytes[i + 3] <= 191
      IN  IF b0 < 128 THEN <<b0>> \o Utf8DecodeFrom(bytes, i + 1)
          ELSE IF needed = 1 /\ ok1
          THEN <<(b0 - 192) * 64 + (bytes[i + 1] - 128)>>
               \o Utf8DecodeFrom(bytes, i + 2)
          ELSE IF needed = 2 /\ ok2
          THEN <<(b0 - 224) * 4096 + (bytes[i + 1] - 128) * 64
                 + (bytes[i + 2] - 128)>>
               \o Utf8DecodeFrom(bytes, i + 3)
          ELSE IF needed = 3 /\ ok3
          THEN <<(b0 - 240) * 262144 + (bytes[i + 1] - 128) * 4096
                 + (bytes[i + 2] - 128) * 64 + (bytes[i + 3] - 128)>>
               \o Utf8DecodeFrom(bytes, i + 4)
          ELSE IF needed >= 2 /\ ok2
          THEN <<Replacement>> \o Utf8DecodeFrom(bytes, i + 3)
          ELSE IF needed >= 1 /\ ok1
          THEN <<Replacement>> \o Utf8DecodeFrom(bytes, i + 2)
          ELSE <<Replacement>> \o Utf8DecodeFrom(bytes, i + 1)

HasByteOrderMark(bytes) ==
    Len(bytes) >= 3 /\ bytes[1] = 239 /\ bytes[2] = 187 /\ bytes[3] = 191

\* windows-1252, the encoding the labels "latin1" and "ascii" name: the
\* bytes 128..159 that are not themselves
Windows1252(byte) ==
    CASE byte = 128 -> 8364 [] byte = 130 -> 8218 [] byte = 131 -> 402
      [] byte = 132 -> 8222 [] byte = 133 -> 8230 [] byte = 134 -> 8224
      [] byte = 135 -> 8225 [] byte = 136 -> 710 [] byte = 137 -> 8240
      [] byte = 138 -> 352 [] byte = 139 -> 8249 [] byte = 140 -> 338
      [] byte = 142 -> 381 [] byte = 145 -> 8216 [] byte = 146 -> 8217
      [] byte = 147 -> 8220 [] byte = 148 -> 8221 [] byte = 149 -> 8226
      [] byte = 150 -> 8211 [] byte = 151 -> 8212 [] byte = 152 -> 732
      [] byte = 153 -> 8482 [] byte = 154 -> 353 [] byte = 155 -> 8250
      [] byte = 156 -> 339 [] byte = 158 -> 382 [] byte = 159 -> 376
      [] OTHER -> byte

\* the encoding new TextDecoder(label) decodes, "unsupported" when the
\* constructor throws its RangeError
TextDecoderEncoding(label) ==
    CASE label \in {"utf-8", "utf8"} -> "utf-8"
      [] label \in {"latin1", "ascii"} -> "windows-1252"
      [] OTHER -> "unsupported"

\* TextDecoder.prototype.decode(bytes)
TextDecode(encoding, bytes) ==
    IF encoding = "windows-1252"
    THEN Tuple([i \in 1..Len(bytes) |-> Windows1252(bytes[i])])
    ELSE IF HasByteOrderMark(bytes) THEN Utf8DecodeFrom(bytes, 4)
    ELSE Utf8DecodeFrom(bytes, 1)

(***************************************************************************)
(* ByteBuf: the strings (getString to writeVarString).  The thrown          *)
(* TypeError("String encoding ... is not supported") and the RangeError of  *)
(* new TextDecoder are the specification's UnsupportedEncoding; the thrown  *)
(* RangeError("VarString must be less than or equal to ... bytes.") is its  *)
(* LengthExceeded.                                                          *)
(***************************************************************************)
getString(mem, b, byteOffset, byteLength, byteEncoding) ==
    LET encoding == TextDecoderEncoding(IF byteEncoding = <<>> THEN "utf-8"
                                        ELSE byteEncoding[1])
        encoded == getUint8Array(mem, b, byteOffset, byteLength)
    IN  IF encoding = "unsupported" THEN Throw(mem, b, "UnsupportedEncoding")
        ELSE IF encoded.err # "none" THEN encoded
        ELSE Return(mem, b,
                    TextDecode(encoding, ArrayBytes(mem, encoded.value)))

readString(mem, b, byteLength, byteEncoding) ==
    LET r == getString(mem, b, b.byteOffset, byteLength, byteEncoding)
    IN  IF r.err # "none" THEN r
        ELSE IF byteLength = <<>> THEN [r EXCEPT !.byteOffset = b.byteLength]
        ELSE [r EXCEPT !.byteOffset = @ + byteLength[1]]

Min(x, y) == IF x <= y THEN x ELSE y

\* setString with a destination of value.length * 4 bytes whatever the
\* room in the view
setStringUnclamped(mem, b, byteOffset, value, byteEncoding) ==
    LET byteLength == StringLength(value) * 4
        destination == getUint8Array(mem, b, byteOffset, <<byteLength>>)
        written == TextEncodeInto(value, byteLength)
    IN  IF byteEncoding # <<>> /\ byteEncoding # <<"utf-8">>
        THEN Throw(mem, b, "UnsupportedEncoding")
        ELSE IF destination.err # "none" THEN destination
        ELSE Return(PutBytes(mem, destination.value.byteOffset, written), b,
                    Len(written))

setString(mem, b, byteOffset, value, byteEncoding) ==
    LET byteLength == Min(b.byteLength - byteOffset, StringLength(value) * 4)
        destination == getUint8Array(mem, b, byteOffset, <<byteLength>>)
        written == TextEncodeInto(value, byteLength)
    IN  IF byteEncoding # <<>> /\ byteEncoding # <<"utf-8">>
        THEN Throw(mem, b, "UnsupportedEncoding")
        ELSE IF destination.err # "none" THEN destination
        ELSE Return(PutBytes(mem, destination.value.byteOffset, written), b,
                    Len(written))

writeString(mem, b, value, byteEncoding) ==
    AdvanceByLength(setString(mem, b, b.byteOffset, value, byteEncoding))

\* a length read from the memory, as an integer of the model; a length of
\* 2^30 or more is past the end of every memory the model holds
ToLength(value) ==
    IF Len(value.mag) > 30 THEN 2 ^ 30 ELSE BitsToNat(value.mag)

\* getVarStringAfter refusing a length equal to maxByteLength
getVarStringAfterStrict(mem, b, byteOffset, maxByteLength, d) ==
    LET byteLength == ToLength(d.value.value)
        delimeterOffset == d.value.byteLength
        s == getString(mem, b, byteOffset + delimeterOffset, <<byteLength>>,
                       <<>>)
    IN  IF d.err # "none" THEN d
        ELSE IF maxByteLength # <<>> /\ byteLength >= maxByteLength[1]
        THEN Throw(mem, b, "LengthExceeded")
        ELSE IF s.err # "none" THEN s
        ELSE Return(mem, b, [value |-> s.value,
                             byteLength |-> byteLength + delimeterOffset])

\* getVarString after its call of getVarUint, which returned or threw d
getVarStringAfter(mem, b, byteOffset, maxByteLength, d) ==
    LET byteLength == ToLength(d.value.value)
        delimeterOffset == d.value.byteLength
        s == getString(mem, b, byteOffset + delimeterOffset, <<byteLength>>,
                       <<>>)
    IN  IF d.err # "none" THEN d
        ELSE IF maxByteLength # <<>> /\ byteLength > maxByteLength[1]
        THEN Throw(mem, b, "LengthExceeded")
        ELSE IF s.err # "none" THEN s
        ELSE Return(mem, b, [value |-> s.value,
                             byteLength |-> byteLength + delimeterOffset])

getVarString(mem, b, byteOffset, maxByteLength) ==
    getVarStringAfter(mem, b, byteOffset, maxByteLength,
                      getVarUint(mem, b, byteOffset, <<>>))

readVarString(mem, b, maxByteLength) ==
    AdvanceByResult(getVarString(mem, b, b.byteOffset, maxByteLength))

\* setVarString after its call of setVarInt, which returned or threw d
setVarStringAfter(mem, b, byteOffset, encoded, d) ==
    LET byteLength == Len(encoded)
        delimeterOffset == d.value
        s == setUint8Array(d.buffer, b, byteOffset + delimeterOffset, encoded)
    IN  IF d.err # "none" THEN d
        ELSE IF s.err # "none" THEN s
        ELSE Return(s.buffer, b, delimeterOffset + byteLength)

setVarString(mem, b, byteOffset, value) ==
    setVarStringAfter(mem, b, byteOffset, TextEncode(value),
                      setVarInt(mem, b, byteOffset,
                                Num(Len(TextEncode(value))), <<>>))

writeVarString(mem, b, value) ==
    LET r == setVarString(mem, b, b.byteOffset, value)
    IN  IF r.err # "none" THEN r
        ELSE [r EXCEPT !.byteOffset = @ + r.value]


(***************************************************************************)
(* ByteBuf: construction and the cursor (from to clear).  A source is the   *)
(* memory itself (an ArrayBuffer) or a view of it (isView, with the view's  *)
(* byteOffset and byteLength).  The RangeError of the DataView constructor  *)
(* is the specification's OutOfRange.                                       *)
(***************************************************************************)
\* new DataView(buffer, byteOffset, byteLength)
DataView(mem, byteOffset, byteLength) ==
    LET offset == IF byteOffset = <<>> THEN 0 ELSE byteOffset[1]
        viewByteLength == IF byteLength = <<>> THEN Len(mem) - offset
                          ELSE byteLength[1]
    IN  IF \/ offset < 0
           \/ offset > Len(mem)
           \/ viewByteLength < 0
           \/ offset + viewByteLength > Len(mem)
        THEN [err |-> "OutOfRange"]
        ELSE [err |-> "none", superByteOffset |-> offset,
              byteLength |-> viewByteLength]

\* new ByteBuf(buffer, byteOffset, byteLength): the DataView, and then the
\* field #byteOffset: number = super.byteOffset
ByteBuf(mem, byteOffset, byteLength) ==
    LET v == DataView(mem, byteOffset, byteLength)
    IN  IF v.err # "none" THEN v
        ELSE [err |-> "none",
              object |-> [superByteOffset |-> v.superByteOffset,
                          byteLength |-> v.byteLength,
                          byteOffset |-> v.superByteOffset]]

\* the ArrayBuffer mem as a source, and a view of it as a source
ArrayBufferSource(mem) ==
    [isView |-> FALSE, byteOffset |-> 0, byteLength |-> Len(mem)]

ViewSource(byteOffset, byteLength) ==
    [isView |-> TRUE, byteOffset |-> byteOffset, byteLength |-> byteLength]

from(mem, source, byteOffset, byteLength) ==
    LET byteOffset1 ==
            IF source.isView
            THEN <<source.byteOffset
                   + (IF byteOffset = <<>> THEN 0 ELSE byteOffset[1])>>
            ELSE byteOffset
    IN  IF byteLength = <<>> THEN ByteBuf(mem, byteOffset1, <<>>)
        ELSE ByteBuf(mem, byteOffset1,
                     <<Min(source.byteLength, byteLength[1])>>)

\* get bytesRemaining()
bytesRemaining(b) == b.byteLength - b.byteOffset

skip(mem, b, byteLength) ==
    [Return(mem, b, "undefined") EXCEPT !.byteOffset = @ + byteLength]

reset(mem, b) ==
    [Return(mem, b, "undefined") EXCEPT !.byteOffset = b.superByteOffset]

\* this.getUint8Array(0).fill(0)
clear(mem, b) ==
    LET r == getUint8Array(mem, b, 0, <<>>)
    IN  IF r.err # "none" THEN r
        ELSE Return(PutBytes(mem, r.value.byteOffset,
                             Tuple([i \in 1..r.value.byteLength |-> 0])),
                    b, "undefined")

(***************************************************************************)
(* The accessor of a type, by the type's name.                              *)
(***************************************************************************)
FixedTypes ==
    {"Bool", "Int8", "Uint8", "Int16", "Uint16", "Int32", "Uint32",
     "Float32", "Float64", "BigInt64", "BigUint64", "Int64", "Uint64"}

\* the width in bytes of a fixed-width type
ByteWidth(type) ==
    CASE type \in {"Bool", "Int8", "Uint8"} -> 1
      [] type \in {"Int16", "Uint16"} -> 2
      [] type \in {"Int32", "Uint32", "Float32"} -> 4
      [] OTHER -> 8

GetFixed(type, mem, b, byteOffset, littleEndian) ==
    CASE type = "Bool" -> getBool(mem, b, byteOffset)
      [] type = "Int8" -> getInt8(mem, b, byteOffset)
      [] type = "Uint8" -> getUint8(mem, b, byteOffset)
      [] type = "Int16" ->
            getInt16(mem, b, byteOffset, littleEndian)
      [] type = "Uint16" ->
            getUint16(mem, b, byteOffset, littleEndian)
      [] type = "Int32" ->
            getInt32(mem, b, byteOffset, littleEndian)
      [] type = "Uint32" ->
            getUint32(mem, b, byteOffset, littleEndian)
      [] type = "Float32" ->
            getFloat32(mem, b, byteOffset, littleEndian)
      [] type = "Float64" ->
            getFloat64(mem, b, byteOffset, littleEndian)
      [] type = "BigInt64" ->
            getBigInt64(mem, b, byteOffset, littleEndian)
      [] type = "BigUint64" ->
            getBigUint64(mem, b, byteOffset, littleEndian)
      [] type = "Int64" ->
            getInt64(mem, b, byteOffset, littleEndian)
      [] type = "Uint64" ->
            getUint64(mem, b, byteOffset, littleEndian)

ReadFixed(type, mem, b, littleEndian) ==
    CASE type = "Bool" -> readBool(mem, b)
      [] type = "Int8" -> readInt8(mem, b)
      [] type = "Uint8" -> readUint8(mem, b)
      [] type = "Int16" ->
            readInt16(mem, b, littleEndian)
      [] type = "Uint16" ->
            readUint16(mem, b, littleEndian)
      [] type = "Int32" ->
            readInt32(mem, b, littleEndian)
      [] type = "Uint32" ->
            readUint32(mem, b, littleEndian)
      [] type = "Float32" ->
            readFloat32(mem, b, littleEndian)
      [] type = "Float64" ->
            readFloat64(mem, b, littleEndian)
      [] type = "BigInt64" ->
            readBigInt64(mem, b, littleEndian)
      [] type = "BigUint64" ->
            readBigUint64(mem, b, littleEndian)
      [] type = "Int64" ->
            readInt64(mem, b, littleEndian)
      [] type = "Uint64" ->
            readUint64(mem, b, littleEndian)

SetFixed(type, mem, b, byteOffset, value, littleEndian) ==
    CASE type = "Bool" -> setBool(mem, b, byteOffset, value)
      [] type = "Int8" -> setInt8(mem, b, byteOffset, value)
      [] type = "Uint8" -> setUint8(mem, b, byteOffset, value)
      [] type = "Int16" ->
            setInt16(mem, b, byteOffset, value, littleEndian)
      [] type = "Uint16" ->
            setUint16(mem, b, byteOffset, value, littleEndian)
      [] type = "Int32" ->
            setInt32(mem, b, byteOffset, value, littleEndian)
      [] type = "Uint32" ->
            setUint32(mem, b, byteOffset, value, littleEndian)
      [] type = "Float32" ->
            setFloat32(mem, b, byteOffset, value, littleEndian)
      [] type = "Float64" ->
            setFloat64(mem, b, byteOffset, value, littleEndian)
      [] type = "BigInt64" ->
            setBigInt64(mem, b, byteOffset, value, littleEndian)
      [] type = "BigUint64" ->
            setBigUint64(mem, b, byteOffset, value, littleEndian)
      [] type = "Int64" ->
            setInt64(mem, b, byteOffset, value, littleEndian)
      [] type = "Uint64" ->
            setUint64(mem, b, byteOffset, value, littleEndian)

WriteFixed(type, mem, b, value, littleEndian) ==
    CASE type = "Bool" -> writeBool(mem, b, value)
      [] type = "Int8" -> writeInt8(mem, b, value)
      [] type = "Uint8" -> writeUint8(mem, b, value)
      [] type = "Int16" ->
            writeInt16(mem, b, value, littleEndian)
      [] type = "Uint16" ->
            writeUint16(mem, b, value, littleEndian)
      [] type = "Int32" ->
            writeInt32(mem, b, value, littleEndian)
      [] type = "Uint32" ->
            writeUint32(mem, b, value, littleEndian)
      [] type = "Float32" ->
            writeFloat32(mem, b, value, littleEndian)
      [] type = "Float64" ->
            writeFloat64(mem, b, value, littleEndian)
      [] type = "BigInt64" ->
            writeBigInt64(mem, b, value, littleEndian)
      [] type = "BigUint64" ->
            writeBigUint64(mem, b, value, littleEndian)
      [] type = "Int64" ->
            writeInt64(mem, b, value, littleEndian)
      [] type = "Uint64" ->
            writeUint64(mem, b, value, littleEndian)

VarTypes == {"VarInt", "VarUint", "VarZint"}

GetVar(type, mem, b, byteOffset, maxByteLength) ==
    CASE type = "VarInt" -> getVarInt(mem, b, byteOffset, maxByteLength)
      [] type = "VarUint" -> getVarUint(mem, b, byteOffset, maxByteLength)
      [] type = "VarZint" -> getVarZint(mem, b, byteOffset, maxByteLength)

ReadVar(type, mem, b, maxByteLength) ==
    CASE type = "VarInt" -> readVarInt(mem, b, maxByteLength)
      [] type = "VarUint" -> readVarUint(mem, b, maxByteLength)
      [] type = "VarZint" -> readVarZint(mem, b, maxByteLength)

SetVar(type, mem, b, byteOffset, value, maxByteLength) ==
    CASE type = "VarInt" ->
            setVarInt(mem, b, byteOffset, value, maxByteLength)
      [] type = "VarUint" ->
            setVarUint(mem, b, byteOffset, value, maxByteLength)
      [] type = "VarZint" ->
            setVarZint(mem, b, byteOffset, value, maxByteLength)

WriteVar(type, mem, b, value, maxByteLength) ==
    CASE type = "VarInt" -> writeVarInt(mem, b, value, maxByteLength)
      [] type = "VarUint" -> writeVarUint(mem, b, value, maxByteLength)
      [] type = "VarZint" -> writeVarZint(mem, b, value, maxByteLength)

ArrayTypes == {"Uint8Array", "Uint16Array"}

GetArray(type, mem, b, byteOffset, byteLength) ==
    CASE type = "Uint8Array" -> getUint8Array(mem, b, byteOffset, byteLength)
      [] type = "Uint16Array" ->
            getUint16Array(mem, b, byteOffset, byteLength)

ReadArray(type, mem, b, byteLength) ==
    CASE type = "Uint8Array" -> readUint8Array(mem, b, byteLength)
      [] type = "Uint16Array" -> readUint16Array(mem, b, byteLength)

SetArray(type, mem, b, byteOffset, value) ==
    CASE type = "Uint8Array" -> setUint8Array(mem, b, byteOffset, value)
      [] type = "Uint16Array" -> setUint16Array(mem, b, byteOffset, value)

WriteArray(type, mem, b, value) ==
    CASE type = "Uint8Array" -> writeUint8Array(mem, b, value)
      [] type = "Uint16Array" -> writeUint16Array(mem, b, value)


(***************************************************************************)
(* The state machine.  A behaviour is a program that constructs a ByteBuf   *)
(* over a memory, moves the cursor with skip, and then calls methods, at    *)
(* most MaxOps of them.  Every action is one call: the whole method, with   *)
(* what it leaves behind when it throws.                                    *)
(***************************************************************************)
\* the call op of the accessor family type, with arguments args and outcome r
Call(op, type, args, r) ==
    /\ buffer' = r.buffer
    /\ buf' = After(buf, r)
    /\ last' = Called(op, type, r.err, args, buffer, buf, r.value)
    /\ ops' = ops + 1
    /\ other' = Bystander(other, r)

\* a program's start: ByteBuf.from(source, byteOffset, byteLength) over the
\* memory mem, and then skip(n)
Start(mem, source, byteOffset, byteLength, n) ==
    LET f == from(mem, source, byteOffset, byteLength)
    IN  /\ f.err = "none"
        /\ buffer = mem
        /\ buf = After(f.object, skip(mem, f.object, n))
        /\ last = Called("from", "ByteBuf", "none",
                         [source |-> source, byteOffset |-> byteOffset,
                          byteLength |-> byteLength, skip |-> n],
                         mem, f.object, "none")
        /\ ops = 0
        /\ other = <<>>

From(Sources, Offsets, Lengths) ==
    /\ ops < MaxOps
    /\ \E source \in Sources, byteOffset \in Offsets, byteLength \in Lengths :
        LET f == from(buffer, source, byteOffset, byteLength)
        IN  /\ buffer' = buffer
            /\ buf' = IF f.err = "none" THEN f.object ELSE buf
            /\ last' = Called("from", "ByteBuf", f.err,
                              [source |-> source, byteOffset |-> byteOffset,
                               byteLength |-> byteLength, skip |-> 0],
                              buffer, buf, "none")
            /\ ops' = ops + 1
            /\ other' = other

Skip(Lengths) ==
    /\ ops < MaxOps
    /\ \E byteLength \in Lengths :
        Call("skip", "ByteBuf", [byteLength |-> byteLength],
             skip(buffer, buf, byteLength))

Reset ==
    /\ ops < MaxOps
    /\ Call("reset", "ByteBuf", <<>>, reset(buffer, buf))

Clear ==
    /\ ops < MaxOps
    /\ Call("clear", "ByteBuf", <<>>, clear(buffer, buf))

\* get<type>(byteOffset, littleEndian); the one-byte types take no
\* littleEndian
Get(Types, Offsets, Endians) ==
    /\ ops < MaxOps
    /\ \E type \in Types, byteOffset \in Offsets, littleEndian \in Endians :
        /\ ByteWidth(type) = 1 => littleEndian = <<>>
        /\ Call("get", type,
                [byteOffset |-> byteOffset, littleEndian |-> littleEndian],
                GetFixed(type, buffer, buf, byteOffset, littleEndian))

Read(Types, Endians) ==
    /\ ops < MaxOps
    /\ \E type \in Types, littleEndian \in Endians :
        /\ ByteWidth(type) = 1 => littleEndian = <<>>
        /\ Call("read", type, [littleEndian |-> littleEndian],
                ReadFixed(type, buffer, buf, littleEndian))

Set(Types, Offsets, Values, Endians) ==
    /\ ops < MaxOps
    /\ \E type \in Types, byteOffset \in Offsets, littleEndian \in Endians :
        \E value \in Values[type] :
            /\ ByteWidth(type) = 1 => littleEndian = <<>>
            /\ Call("set", type,
                    [byteOffset |-> byteOffset, value |-> value,
                     littleEndian |-> littleEndian],
                    SetFixed(type, buffer, buf, byteOffset, value,
                             littleEndian))

Write(Types, Values, Endians) ==
    /\ ops < MaxOps
    /\ \E type \in Types, littleEndian \in Endians :
        \E value \in Values[type] :
            /\ ByteWidth(type) = 1 => littleEndian = <<>>
            /\ Call("write", type,
                    [value |-> value, littleEndian |-> littleEndian],
                    WriteFixed(type, buffer, buf, value, littleEndian))

GetVarint(Types, Offsets, Maxes) ==
    /\ ops < MaxOps
    /\ \E type \in Types, byteOffset \in Offsets, maxByteLength \in Maxes :
        Call("get", type,
             [byteOffset |-> byteOffset, maxByteLength |-> maxByteLength],
             GetVar(type, buffer, buf, byteOffset, maxByteLength))

ReadVarint(Types, Maxes) ==
    /\ ops < MaxOps
    /\ \E type \in Types, maxByteLength \in Maxes :
        Call("read", type, [maxByteLength |-> maxByteLength],
             ReadVar(type, buffer, buf, maxByteLength))

SetVarint(Types, Offsets, Values, Maxes) ==
    /\ ops < MaxOps
    /\ \E type \in Types, byteOffset \in Offsets, maxByteLength \in Maxes :
        \E value \in Values[type] :
            Call("set", type,
                 [byteOffset |-> byteOffset, value |-> value,
                  maxByteLength |-> maxByteLength],
                 SetVar(type, buffer, buf, byteOffset, value, maxByteLength))

WriteVarint(Types, Values, Maxes) ==
    /\ ops < MaxOps
    /\ \E type \in Types, maxByteLength \in Maxes :
        \E value \in Values[type] :
            Call("write", type,
                 [value |-> value, maxByteLength |-> maxByteLength],
                 WriteVar(type, buffer, buf, value, maxByteLength))

GetTypedArray(Types, Offsets, Lengths) ==
    /\ ops < MaxOps
    /\ \E type \in Types, byteOffset \in Offsets, byteLength \in Lengths :
        Call("get", type,
             [byteOffset |-> byteOffset, byteLength |-> byteLength],
             GetArray(type, buffer, buf, byteOffset, byteLength))

ReadTypedArray(Types, Lengths) ==
    /\ ops < MaxOps
    /\ \E type \in Types, byteLength \in Lengths :
        Call("read", type, [byteLength |-> byteLength],
             ReadArray(type, buffer, buf, byteLength))

SetTypedArray(Types, Offsets, Values) ==
    /\ ops < MaxOps
    /\ \E type \in Types, byteOffset \in Offsets, value \in Values :
        Call("set", type, [byteOffset |-> byteOffset, value |-> value],
             SetArray(type, buffer, buf, byteOffset, value))

WriteTypedArray(Types, Values) ==
    /\ ops < MaxOps
    /\ \E type \in Types, value \in Values :
        Call("write", type, [value |-> value],
             WriteArray(type, buffer, buf, value))

GetString(Offsets, Lengths, Encodings) ==
    /\ ops < MaxOps
    /\ \E byteOffset \in Offsets, byteLength \in Lengths,
       byteEncoding \in Encodings :
        Call("get", "String",
             [byteOffset |-> byteOffset, byteLength |-> byteLength,
              byteEncoding |-> byteEncoding],
             getString(buffer, buf, byteOffset, byteLength, byteEncoding))

ReadString(Lengths, Encodings) ==
    /\ ops < MaxOps
    /\ \E byteLength \in Lengths, byteEncoding \in Encodings :
        Call("read", "String",
             [byteLength |-> byteLength, byteEncoding |-> byteEncoding],
             readString(buffer, buf, byteLength, byteEncoding))

SetString(Offsets, Values, Encodings) ==
    /\ ops < MaxOps
    /\ \E byteOffset \in Offsets, value \in Values, byteEncoding \in Encodings :
        Call("set", "String",
             [byteOffset |-> byteOffset, value |-> value,
              byteEncoding |-> byteEncoding],
             setString(buffer, buf, byteOffset, value, byteEncoding))

WriteString(Values, Encodings) ==
    /\ ops < MaxOps
    /\ \E value \in Values, byteEncoding \in Encodings :
        Call("write", "String",
             [value |-> value, byteEncoding |-> byteEncoding],
             writeString(buffer, buf, value, byteEncoding))

GetVarString(Offsets, Maxes) ==
    /\ ops < MaxOps
    /\ \E byteOffset \in Offsets, maxByteLength \in Maxes :
        Call("get", "VarString",
             [byteOffset |-> byteOffset, maxByteLength |-> maxByteLength],
             getVarString(buffer, buf, byteOffset, maxByteLength))

ReadVarString(Maxes) ==
    /\ ops < MaxOps
    /\ \E maxByteLength \in Maxes :
        Call("read", "VarString", [maxByteLength |-> maxByteLength],
             readVarString(buffer, buf, maxByteLength))

SetVarString(Offsets, Values) ==
    /\ ops < MaxOps
    /\ \E byteOffset \in Offsets, value \in Values :
        Call("set", "VarString",
             [byteOffset |-> byteOffset, value |-> value],
             setVarString(buffer, buf, byteOffset, value))

WriteVarString(Values) ==
    /\ ops < MaxOps
    /\ \E value \in Values :
        Call("write", "VarString", [value |-> value],
             writeVarString(buffer, buf, value))


(***************************************************************************)
(* Spec: every method, over a memory of twelve bytes that holds the        *)
(* VarString "Hello", the varint 255 and a varint of three bytes.           *)
(***************************************************************************)
Hello == <<5, 72, 101, 108, 108, 111, 255, 1, 128, 128, 1, 0>>

Memories == {Hello}

\* the sources of a memory: the memory, and a Uint8Array over its bytes 2..9
Sources(mem) == {ArrayBufferSource(mem), ViewSource(2, 8)}

\* the cursor's moves before the first call
Skips == {-1, 0, 2, 12}

Offsets == {-1, 0, 2}

\* the offsets of the fixed-width accessors: before the view, inside it, and
\* at the end of a view of eight bytes
FixedOffsets == {-1, 2, 8}

\* the offsets given to from: none, inside the source, past the memory,
\* negative, and past a source of eight bytes but inside the memory
FromOffsets == {<<>>, <<2>>, <<13>>, <<-1>>, <<9>>}

\* the offsets of the arrays: those, an odd one, and one two bytes before
\* the end of a view of eight bytes
ArrayOffsets == {-1, 0, 1, 2, 6}

Endians == {<<>>, <<TRUE>>}

\* 1.5 as a float of the type
OneAndHalf(type) ==
    [nan |-> FALSE, sign |-> 0, exp |-> 2 ^ (ExponentBits(type) - 1) - 1,
     frac |-> Tuple([i \in 1..FractionBits(type) |->
                  IF i = FractionBits(type) THEN 1 ELSE 0])]

FixedValues ==
    [type \in FixedTypes |->
        IF type = "Bool" THEN {TRUE}
        ELSE IF type \in {"Float32", "Float64"} THEN {OneAndHalf(type)}
        ELSE {Num(-2)}]

VarValues == [type \in VarTypes |-> {Num(300)}]

Maxes == {<<>>, <<1>>}

ArrayLengths == {<<>>, <<3>>}

Arrays == {<<1, 2>>, <<1, 2, 3, 4>>}

Strings == {<<104, 233, 8364>>}

Encodings == {<<>>, <<"latin1">>}

StringMaxes == {<<>>, <<2>>}

Init ==
    \E mem \in Memories :
        \E source \in Sources(mem), byteLength \in {<<>>, <<8>>},
           n \in Skips :
            Start(mem, source, <<>>, byteLength, n)

Next ==
    \/ From(Sources(buffer), FromOffsets, {<<>>, <<4>>})
    \/ Skip({-1, 1})
    \/ Reset
    \/ Clear
    \/ Get(FixedTypes, FixedOffsets, Endians)
    \/ Read(FixedTypes, Endians)
    \/ Set(FixedTypes, FixedOffsets, FixedValues, {<<>>})
    \/ Write(FixedTypes, FixedValues, {<<>>})
    \/ GetVarint(VarTypes, Offsets, Maxes)
    \/ ReadVarint(VarTypes, Maxes)
    \/ SetVarint(VarTypes, Offsets, VarValues, Maxes)
    \/ WriteVarint(VarTypes, VarValues, Maxes)
    \/ GetTypedArray(ArrayTypes, ArrayOffsets, ArrayLengths)
    \/ ReadTypedArray(ArrayTypes, ArrayLengths)
    \/ SetTypedArray(ArrayTypes, ArrayOffsets, Arrays)
    \/ WriteTypedArray(ArrayTypes, Arrays)
    \/ GetString(Offsets, ArrayLengths, Encodings)
    \/ ReadString(ArrayLengths, Encodings)
    \/ SetString(Offsets, Strings, Encodings)
    \/ WriteString(Strings, Encodings)
    \/ GetVarString(Offsets, StringMaxes)
    \/ ReadVarString(StringMaxes)
    \/ SetVarString(Offsets, Strings)
    \/ WriteVarString(Strings)

Spec == Init /\ [][Next]_vars


(***************************************************************************)
(* Properties of the cursor.  In every property p is the cursor before the  *)
(* last call, last.buf.byteOffset.                                          *)
(***************************************************************************)
\* C1: a positional operation (get* or set* of a fixed-width type, Bool, a
\* varint, String, VarString, Uint8Array or Uint16Array) leaves the cursor
\* where it was, whether it returns or throws.
PositionalKeepsCursor ==
    last.op \in {"get", "set"} => buf.byteOffset = last.buf.byteOffset

\* a set that stored bytes while the cursor stood inside the view
PositionalKeepsCursorWitness ==
    /\ last.op = "set"
    /\ last.type = "Int16"
    /\ last.err = "none"
    /\ buffer # last.buffer
    /\ last.buf.byteOffset = 2

\* C2: with the cursor at p, 0 <= p and p + W <= byteLength, read<Type>(le)
\* returns what get<Type>(p, le) returns and write<Type>(v, le) leaves the
\* bytes as set<Type>(p, v, le) does; both leave the cursor at p + W.
ReadIsGetWriteIsSet ==
    LET p == last.buf.byteOffset
        W == ByteWidth(last.type)
        g == GetFixed(last.type, last.buffer, last.buf, p,
                      last.args.littleEndian)
        s == SetFixed(last.type, last.buffer, last.buf, p, last.args.value,
                      last.args.littleEndian)
    IN  (last.type \in FixedTypes /\ InView(last.buf, p, W)) =>
            /\ last.op = "read" =>
                    /\ last.err = "none"
                    /\ g.err = "none"
                    /\ last.value = g.value
                    /\ buffer = last.buffer
                    /\ buf.byteOffset = p + W
            /\ last.op = "write" =>
                    /\ last.err = "none"
                    /\ s.err = "none"
                    /\ buffer = s.buffer
                    /\ buf.byteOffset = p + W

\* an eight-byte write in the middle of the view that changed the memory
ReadIsGetWriteIsSetWitness ==
    /\ last.op = "write"
    /\ last.type = "Int64"
    /\ last.buf.byteOffset = 2
    /\ last.err = "none"
    /\ buffer # last.buffer
    /\ buf.byteOffset = 10

\* the bytes the positional form of the last streaming call, made at the
\* offset p, reports as consumed, written, aliased or copied
PositionalLength ==
    LET p == last.buf.byteOffset
        mem == last.buffer
        b == last.buf
        a == last.args
    IN  CASE last.op = "read" /\ last.type \in VarTypes ->
                GetVar(last.type, mem, b, p, a.maxByteLength).value.byteLength
          [] last.op = "write" /\ last.type \in VarTypes ->
                SetVar(last.type, mem, b, p, a.value, a.maxByteLength).value
          [] last.op = "read" /\ last.type \in ArrayTypes ->
                GetArray(last.type, mem, b, p, a.byteLength).value.byteLength
          [] last.op = "write" /\ last.type \in ArrayTypes -> Len(a.value)
          [] last.op = "read" /\ last.type = "String" ->
                getUint8Array(mem, b, p, a.byteLength).value.byteLength
          [] last.op = "write" /\ last.type = "String" ->
                setString(mem, b, p, a.value, a.byteEncoding).value
          [] last.op = "read" /\ last.type = "VarString" ->
                getVarString(mem, b, p, a.maxByteLength).value.byteLength
          [] last.op = "write" /\ last.type = "VarString" ->
                setVarString(mem, b, p, a.value).value

\* C3: a variable-length streaming operation that succeeds with the cursor
\* at p leaves the cursor at p + L, L the length its positional form at p
\* reports.
StreamingAdvancesByLength ==
    (/\ last.op \in {"read", "write"}
     /\ last.type \in VarTypes \cup ArrayTypes \cup {"String", "VarString"}
     /\ last.err = "none")
        => buf.byteOffset = last.buf.byteOffset + PositionalLength

\* C4: the cursor is 0 right after from(), whatever the source and the
\* offset, and 0 again right after reset().
CursorStartsAtZero ==
    /\ (last.op = "from" /\ last.err = "none" /\ last.args.skip = 0)
            => buf.byteOffset = 0
    /\ last.op = "reset" => buf.byteOffset = 0


(***************************************************************************)
(* SpecVarGet: reading varints.  A memory of twelve bytes holds k           *)
(* continuation bytes, all c, then the terminator t, then bytes 0xff; or    *)
(* twelve continuation bytes.  The view is the whole memory or its first    *)
(* six bytes.                                                               *)
(***************************************************************************)
VarintMemory(k, c, t) ==
    Tuple([i \in 1..12 |-> IF i <= k THEN c ELSE IF i = k + 1 THEN t ELSE 255])

VarintMemories ==
    {VarintMemory(k, c, t) : k \in 0..12, c \in {128, 255}, t \in {1, 127}}

VarGetMaxes == {<<>>, <<1>>, <<5>>}

InitVarGet ==
    \E mem \in VarintMemories, byteLength \in {<<>>, <<6>>}, n \in {0, 1} :
        Start(mem, ArrayBufferSource(mem), <<>>, byteLength, n)

NextVarGet ==
    \/ GetVarint(VarTypes, {0, 1}, VarGetMaxes)
    \/ ReadVarint(VarTypes, VarGetMaxes)

SpecVarGet == InitVarGet /\ [][NextVarGet]_vars

(***************************************************************************)
(* SpecVarSet: writing varints, over a memory of twelve bytes 0xaa.  The    *)
(* values are the ends of the ranges of one to five groups, and the ends    *)
(* of the 32-bit ranges.                                                    *)
(***************************************************************************)
Filled == Tuple([i \in 1..12 |-> 170])

\* 2^n, and 2^n - 1
PowerOfTwo(n) ==
    [neg |-> FALSE,
     mag |-> Tuple([i \in 1..(n + 1) |-> IF i > n THEN 1 ELSE 0])]

AllOnes(n) == [neg |-> FALSE, mag |-> Tuple([i \in 1..n |-> 1])]

\* -z, for z > 0
Negative(z) == [z EXCEPT !.neg = TRUE]

Int32Values ==
    {Num(0), Num(1), Num(127), Num(128), Num(16383), AllOnes(30),
     PowerOfTwo(30), AllOnes(31), Num(-1), Num(-64), Num(-65),
     Negative(PowerOfTwo(30)), Num(-1073741825), Negative(PowerOfTwo(31))}

Uint32Values ==
    {Num(0), Num(127), Num(128), Num(255), Num(16383), Num(2097151),
     Num(2097152), AllOnes(28), PowerOfTwo(28), AllOnes(31), PowerOfTwo(31),
     AllOnes(32)}

\* the values of the zigzag vectors next to those of Int32Values
ZintValues == Int32Values \cup {Num(63), Num(64), Num(255)}

VarSetValues ==
    [type \in VarTypes |->
        IF type = "VarUint" THEN Uint32Values
        ELSE IF type = "VarZint" THEN ZintValues
        ELSE Int32Values]

VarSetMaxes == {<<>>, <<2>>}

InitVarSet ==
    \/ \E byteLength \in {<<>>, <<4>>}, n \in {0, 2} :
            Start(Filled, ArrayBufferSource(Filled), <<>>, byteLength, n)
    \/ \E n \in {0, 2} : Start(Filled, ViewSource(2, 8), <<>>, <<>>, n)

NextVarSet ==
    \/ SetVarint(VarTypes, {3}, VarSetValues, VarSetMaxes)
    \/ WriteVarint(VarTypes, VarSetValues, VarSetMaxes)

SpecVarSet == InitVarSet /\ [][NextVarSet]_vars


(***************************************************************************)
(* Properties of the varints.  The expected bytes and values are computed   *)
(* from the bits of the number, group by group, not by the codec.           *)
(***************************************************************************)
\* bit j (0 the lowest) of the number z >= 0
BitOf(z, j) == IF j < Len(z.mag) THEN z.mag[j + 1] ELSE 0

\* max(1, ceil(bitLength(v) / 7))
GroupCount(v) == IF Len(v.mag) = 0 THEN 1 ELSE (Len(v.mag) + 6) \div 7

\* (v >> 7i) & 0x7f
GroupOf(v, i) ==
    BitOf(v, 7 * i) + 2 * BitOf(v, 7 * i + 1) + 4 * BitOf(v, 7 * i + 2)
        + 8 * BitOf(v, 7 * i + 3) + 16 * BitOf(v, 7 * i + 4)
        + 32 * BitOf(v, 7 * i + 5) + 64 * BitOf(v, 7 * i + 6)

\* the n bytes of the memory mem from the index at on
Slice(mem, at, n) == SubSeq(mem, at + 1, at + n)

\* the limit a call was given, 10 when it gave none
LimitOf(maxByteLength) ==
    IF maxByteLength = <<>> THEN 10 ELSE maxByteLength[1]

\* C5: setVarUint(offset, v), 0 <= v < 2^32, writes n = max(1,
\* ceil(bitLength(v) / 7)) bytes, byte i being group i of v with the high
\* bit set iff i < n - 1, returns n and changes no other byte, when
\* n <= maxByteLength and the bytes fit in the view; with the six vectors of
\* the specification.
SetVarUintWritesGroups ==
    LET a == last.args
        v == a.value
        n == GroupCount(v)
        at == last.buf.superByteOffset + a.byteOffset
        written == Slice(buffer, at, n)
    IN  (/\ last.op = "set"
         /\ last.type = "VarUint"
         /\ ~v.neg
         /\ Len(v.mag) <= 32
         /\ n <= LimitOf(a.maxByteLength)
         /\ InView(last.buf, a.byteOffset, n)) =>
            /\ last.err = "none"
            /\ last.value = n
            /\ \A i \in 1..Len(buffer) :
                    buffer[i] =
                        IF i > at /\ i <= at + n
                        THEN GroupOf(v, i - at - 1)
                             + (IF i - at < n THEN 128 ELSE 0)
                        ELSE last.buffer[i]
            /\ v = Num(0) => written = <<0>>
            /\ v = Num(127) => written = <<127>>
            /\ v = Num(255) => written = <<255, 1>>
            /\ v = Num(2097151) => written = <<255, 255, 127>>
            /\ v = AllOnes(31) => written = <<255, 255, 255, 255, 7>>
            /\ v = AllOnes(32) => written = <<255, 255, 255, 255, 15>>

\* 2^32 - 1 stored in five bytes in the middle of the view
SetVarUintWritesGroupsWitness ==
    /\ last.op = "set"
    /\ last.type = "VarUint"
    /\ last.args.value = AllOnes(32)
    /\ last.args.byteOffset = 3
    /\ last.err = "none"
    /\ last.value = 5
    /\ buffer # last.buffer

\* the bytes of the view from offset on that a varint call looks at: byte i
\* of them, and whether it lies in the view
ByteOf(i) ==
    last.buffer[last.buf.superByteOffset + last.args.byteOffset + i + 1]

Exists(i) == InView(last.buf, last.args.byteOffset + i, 1)

\* byte i is in the view and has its high bit clear
Terminates(i) == Exists(i) /\ ByteOf(i) < 128

\* the index of the first byte with a clear high bit is k
FirstTerminator(k) == Terminates(k) /\ \A i \in 0..(k - 1) : ~Terminates(i)

\* bit j of the sum of the groups (byte_i & 0x7f) * 2^(7i), i in 0..k
SumBit(k, j) ==
    IF j \div 7 <= k THEN (ByteOf(j \div 7) \div (2 ^ (j % 7))) % 2 ELSE 0

\* C6: when the first byte with a clear high bit is at index k,
\* k < maxByteLength, getVarUint returns byteLength k + 1 and the value
\* (sum over i in 0..k of (byte_i & 0x7f) * 2^(7i)) mod 2^32.
VarUintIsGroupSum ==
    \A k \in 0..9 :
        (/\ last.op = "get"
         /\ last.type = "VarUint"
         /\ k < LimitOf(last.args.maxByteLength)
         /\ FirstTerminator(k)) =>
            /\ last.err = "none"
            /\ last.value.byteLength = k + 1
            /\ last.value.value
                    = FromUnsigned(Tuple([j \in 1..32 |-> SumBit(k, j - 1)]))

\* C7: after setVarZint(offset, n) succeeds for a signed 32-bit n,
\* getVarZint(offset) returns n and the byte length setVarZint returned.
ZigzagRoundTrip ==
    (last.op = "set" /\ last.type = "VarZint" /\ last.err = "none") =>
        LET g == getVarZint(buffer, buf, last.args.byteOffset, <<>>)
        IN  /\ g.err = "none"
            /\ g.value.value = last.args.value
            /\ g.value.byteLength = last.value

\* C8: after setVarInt(offset, v) succeeds for a signed 32-bit v,
\* getVarInt(offset) returns v and the same byte length; a negative v takes
\* five bytes, -1 the bytes ff ff ff ff 0f and -2^31 the bytes 80 80 80 80 08.
SignedVarIntRoundTrip ==
    LET a == last.args
        g == getVarInt(buffer, buf, a.byteOffset, <<>>)
        at == last.buf.superByteOffset + a.byteOffset
    IN  (last.op = "set" /\ last.type = "VarInt" /\ last.err = "none") =>
            /\ g.err = "none"
            /\ g.value.value = a.value
            /\ g.value.byteLength = last.value
            /\ a.value.neg => last.value = 5
            /\ a.value = Num(-1)
                    => Slice(buffer, at, 5) = <<255, 255, 255, 255, 15>>
            /\ a.value = Negative(PowerOfTwo(31))
                    => Slice(buffer, at, 5) = <<128, 128, 128, 128, 8>>

\* -2^31 stored and read back
SignedVarIntRoundTripWitness ==
    /\ last.op = "set"
    /\ last.type = "VarInt"
    /\ last.args.value = Negative(PowerOfTwo(31))
    /\ last.err = "none"
    /\ last.value = 5
    /\ getVarInt(buffer, buf, last.args.byteOffset, <<>>).value.value
            = Negative(PowerOfTwo(31))

\* one of the first max bytes at offset lies in the view with its high bit
\* clear
HasTerminator(max) == \E i \in 0..(max - 1) : Terminates(i)

FailedReadVarintChangesNothing ==
    (last.op = "read" /\ last.type \in VarTypes
     /\ last.err = "LengthExceeded") =>
        /\ buf = last.buf
        /\ buffer = last.buffer

\* ten continuation bytes at the cursor, read away from the view's start
FailedReadVarintChangesNothingWitness ==
    /\ last.op = "read"
    /\ last.type = "VarZint"
    /\ last.args.maxByteLength = <<>>
    /\ last.buf.byteOffset = 1
    /\ \A i \in 1..10 : last.buffer[last.buf.byteOffset + i] >= 128
    /\ last.err = "LengthExceeded"


(***************************************************************************)
(* The view's extent.                                                       *)
(***************************************************************************)
\* C11: from(source, offset, length) with the offset inside the source gives
\* a view whose byteLength is min(length, source.byteLength - offset), and
\* source.byteLength - offset when the length is omitted; the view does not
\* extend past the source's last byte.
FromLengthIsRemaining ==
    LET a == last.args
        offset == IF a.byteOffset = <<>> THEN 0 ELSE a.byteOffset[1]
        remaining == a.source.byteLength - offset
    IN  (last.op = "from" /\ offset >= 0 /\ remaining >= 0) =>
            /\ last.err = "none"
            /\ buf.byteLength = IF a.byteLength = <<>> THEN remaining
                                ELSE Min(a.byteLength[1], remaining)
            /\ buf.superByteOffset + buf.byteLength
                    <= a.source.byteOffset + a.source.byteLength

\* C12: with byteLength omitted and the offset inside the view,
\* getUint8Array(offset) covers the bytes from offset to the end of the view
\* and getString(offset) decodes those bytes as UTF-8.
OmittedLengthCoversView ==
    LET a == last.args
        rest == last.buf.byteLength - a.byteOffset
    IN  (/\ last.op = "get"
         /\ last.type \in {"Uint8Array", "String"}
         /\ a.byteLength = <<>>
         /\ a.byteOffset >= 0
         /\ rest >= 0) =>
            /\ last.type = "Uint8Array" =>
                    /\ last.err = "none"
                    /\ last.value.byteOffset
                            = last.buf.superByteOffset + a.byteOffset
                    /\ last.value.byteLength = rest
            /\ (last.type = "String" /\ a.byteEncoding = <<>>) =>
                    /\ last.err = "none"
                    /\ last.value
                            = TextDecode("utf-8",
                                         ViewBytes(last.buffer, last.buf,
                                                   a.byteOffset, rest))


\* C13: the arrays and the views alias the memory.  A byte stored through
\* the array of getUint8Array(offset, n) at index i is what getUint8 of the
\* view returns at offset + i; a byte set through the view at offset + i is
\* what the array shows at index i; and of two views made by from() over
\* one memory, each reads at its own offset of an absolute byte what the
\* other has set there.  from() leaves the memory as it is.
SubViewAliasesView ==
    /\ (last.op = "get" /\ last.type = "Uint8Array" /\ last.err = "none") =>
            \A i \in 0..(last.value.length - 1) :
                InView(buf, last.args.byteOffset + i, 1) =>
                    /\ getUint8(PutBytes(buffer, last.value.byteOffset + i,
                                         <<170>>),
                                buf, last.args.byteOffset + i).value
                            = Num(170)
                    /\ ArrayBytes(setUint8(buffer, buf,
                                           last.args.byteOffset + i,
                                           Num(85)).buffer,
                                  last.value)[i + 1] = 85
    /\ (last.op = "from" /\ last.err = "none") =>
            /\ buffer = last.buffer
            /\ \A j \in 0..(last.buf.byteLength - 1),
                  k \in 0..(buf.byteLength - 1) :
                    last.buf.superByteOffset + j = buf.superByteOffset + k =>
                        /\ getUint8(setUint8(buffer, last.buf, j,
                                             Num(170)).buffer,
                                    buf, k).value = Num(170)
                        /\ getUint8(setUint8(buffer, buf, k,
                                             Num(85)).buffer,
                                    last.buf, j).value = Num(85)

\* an array of three bytes of a view that starts at byte 2 of the memory,
\* whose first byte, once stored through the array, the view reads
SubViewAliasesViewWitness ==
    /\ last.op = "get"
    /\ last.type = "Uint8Array"
    /\ last.err = "none"
    /\ last.args.byteOffset = 2
    /\ last.value.length = 3
    /\ buf.superByteOffset = 2
    /\ buffer[last.value.byteOffset + 1] # 170
    /\ getUint8(PutBytes(buffer, last.value.byteOffset, <<170>>), buf,
                2).value = Num(170)


\* C14: get<Type>(offset) and set<Type>(offset, v) of a fixed-width type of
\* width W fail with OutOfBounds whenever offset < 0 or offset + W exceeds
\* the view's byteLength, and the failing call leaves the bytes and the
\* cursor as they were.
FixedOutOfBounds ==
    (/\ last.op \in {"get", "set"}
     /\ last.type \in FixedTypes
     /\ \/ last.args.byteOffset < 0
        \/ last.args.byteOffset + ByteWidth(last.type) > last.buf.byteLength)
        =>  /\ last.err = "OutOfBounds"
            /\ buffer = last.buffer
            /\ buf = last.buf

\* a set of four bytes at the end of a view of eight bytes, in a memory of
\* twelve
FixedOutOfBoundsWitness ==
    /\ last.op = "set"
    /\ last.type = "Int32"
    /\ last.args.byteOffset = 8
    /\ last.buf.byteLength = 8
    /\ last.buf.superByteOffset = 0
    /\ Len(buffer) = 12
    /\ last.err = "OutOfBounds"


\* C15: getInt64 and getUint64 return the integer the eight bytes denote, and
\* setInt64 / setUint64 of the returned value at the same offset writes the
\* same eight bytes.
Int64RoundTrip ==
    LET a == last.args
        exact == IF last.type = "Int64"
                 THEN getBigInt64(last.buffer, last.buf, a.byteOffset,
                                  a.littleEndian)
                 ELSE getBigUint64(last.buffer, last.buf, a.byteOffset,
                                   a.littleEndian)
        back == SetFixed(last.type, buffer, buf, a.byteOffset, last.value,
                         a.littleEndian)
    IN  (/\ last.op = "get"
         /\ last.type \in {"Int64", "Uint64"}
         /\ last.err = "none") =>
            /\ last.value = exact.value
            /\ back.err = "none"
            /\ back.buffer = buffer


(***************************************************************************)
(* SpecText: the strings.  The memories are the one of Spec (the VarString  *)
(* "Hello" at 0, the prefixes 255 at 6 and 16384 at 8, the empty VarString  *)
(* at 11), twelve bytes 0xaa and twelve bytes 0x80; the view is the whole   *)
(* memory, its first eight bytes, or eight bytes from byte 2 on.  A string  *)
(* is the sequence of its code points, none of them a surrogate.            *)
(***************************************************************************)
TextMemories == {Hello, Filled, VarintMemory(12, 128, 1)}

\* "", "Hello", U+FEFF "a", and "h" U+20AC U+1F600
TextStrings ==
    {<<>>, <<72, 101, 108, 108, 111>>, <<65279, 97>>, <<104, 8364, 128512>>}

TextOffsets == {0, 6, 8, 11}

TextLengths == {<<>>, <<5>>}

TextEncodings == {<<>>, <<"utf-8">>, <<"latin1">>}

TextMaxes == {<<>>, <<4>>, <<5>>}

InitText ==
    \E mem \in TextMemories, n \in {0, 6} :
        \/ \E byteLength \in {<<>>, <<8>>} :
                Start(mem, ArrayBufferSource(mem), <<>>, byteLength, n)
        \/ Start(mem, ViewSource(2, 8), <<>>, <<8>>, n - 2)

NextText ==
    \/ GetString(TextOffsets, TextLengths, TextEncodings)
    \/ ReadString(TextLengths, TextEncodings)
    \/ SetString(TextOffsets, TextStrings, TextEncodings)
    \/ WriteString(TextStrings, TextEncodings)
    \/ GetVarString(TextOffsets, TextMaxes)
    \/ ReadVarString(TextMaxes)
    \/ SetVarString(TextOffsets, TextStrings)
    \/ WriteVarString(TextStrings)

SpecText == InitText /\ [][NextText]_vars

\* the VarUint bytes of the length p
LengthPrefix(p) ==
    Tuple([i \in 1..GroupCount(Num(p)) |->
        GroupOf(Num(p), i - 1)
            + (IF i < GroupCount(Num(p)) THEN 128 ELSE 0)])

\* C16: setVarString(offset, s), for s of p UTF-8 bytes with a prefix of k
\* bytes that fit the view at offset, writes the VarUint of p and then the
\* p bytes and returns k + p; getVarString(offset) then returns s and k + p.
\* "Hello" gives 05 48 65 6c 6c 6f, the empty string 00.
VarStringRoundTrip ==
    LET a == last.args
        payload == TextEncode(a.value)
        wire == LengthPrefix(Len(payload)) \o payload
        at == last.buf.superByteOffset + a.byteOffset
        g == getVarString(buffer, buf, a.byteOffset, <<>>)
    IN  (/\ last.op = "set"
         /\ last.type = "VarString"
         /\ InView(last.buf, a.byteOffset, Len(wire))) =>
            /\ last.err = "none"
            /\ last.value = Len(wire)
            /\ Slice(buffer, at, Len(wire)) = wire
            /\ a.value = <<72, 101, 108, 108, 111>>
                    => wire = <<5, 72, 101, 108, 108, 111>>
            /\ a.value = <<>> => wire = <<0>>
            /\ g.err = "none"
            /\ g.value.value = a.value
            /\ g.value.byteLength = Len(wire)


\* the outcome of reading the length prefix of the VarString the last call
\* looked at: at its offset for a get, at the cursor for a read
PrefixOf ==
    getVarUint(last.buffer, last.buf,
               IF last.op = "get" THEN last.args.byteOffset
               ELSE last.buf.byteOffset,
               <<>>)

\* the last call gave a maxByteLength and the prefix holds a greater length
PayloadExceeds ==
    /\ last.args.maxByteLength # <<>>
    /\ PrefixOf.err = "none"
    /\ ToLength(PrefixOf.value.value) > last.args.maxByteLength[1]

\* C17 as the specification states it: getVarString fails with
\* LengthExceeded exactly when a maxByteLength is given and the length in
\* the prefix is greater; a readVarString that fails so leaves the cursor.
VarStringExceedsOnlyByPayload ==
    (last.op \in {"get", "read"} /\ last.type = "VarString") =>
        /\ last.err = "LengthExceeded" <=> PayloadExceeds
        /\ last.err = "LengthExceeded" =>
                /\ last.value = "none"
                /\ buf = last.buf

\* C17: getVarString fails with LengthExceeded exactly when a maxByteLength
\* is given and the length in the prefix is greater (an equal length is
\* accepted, the prefix bytes do not count), or when reading the prefix
\* itself fails with LengthExceeded; no value is returned and a
\* readVarString that fails so leaves the cursor where it was.
VarStringExceedsByPayloadOrPrefix ==
    (last.op \in {"get", "read"} /\ last.type = "VarString") =>
        /\ last.err = "LengthExceeded"
                <=> (PayloadExceeds \/ PrefixOf.err = "LengthExceeded")
        /\ last.err = "LengthExceeded" =>
                /\ last.value = "none"
                /\ buf = last.buf
                /\ buffer = last.buffer

\* "Hello", whose prefix holds 5, read at the cursor with a limit of 4
VarStringExceedsByPayloadOrPrefixWitness ==
    /\ last.op = "read"
    /\ last.type = "VarString"
    /\ last.args.maxByteLength = <<4>>
    /\ last.buf.byteOffset = 0
    /\ Slice(last.buffer, last.buf.superByteOffset, 6)
            = <<5, 72, 101, 108, 108, 111>>
    /\ last.err = "LengthExceeded"
    /\ buf.byteOffset = 0


\* the offset of the last setString or writeString, and the bytes it wrote:
\* what setString returned, what writeString moved the cursor by
StringOffset ==
    IF last.op = "set" THEN last.args.byteOffset ELSE last.buf.byteOffset

StringWritten ==
    IF last.op = "set" THEN last.value
    ELSE buf.byteOffset - last.buf.byteOffset

\* C18: setString(offset, value) with the offset inside the view does not
\* fail however small the room: it writes n bytes, n at most
\* min(byteLength - offset, 4 * value.length), all of the UTF-8 bytes of
\* value when they fit and fewer when they do not, a prefix of them; no byte
\* outside [offset, offset + n) changes, none past the view's end;
\* setString returns n and writeString moves the cursor by n.
SetStringTruncates ==
    LET a == last.args
        room == last.buf.byteLength - StringOffset
        full == TextEncode(a.value)
        n == StringWritten
        at == last.buf.superByteOffset + StringOffset
    IN  (/\ last.op \in {"set", "write"}
         /\ last.type = "String"
         /\ a.byteEncoding \in {<<>>, <<"utf-8">>}
         /\ StringOffset >= 0
         /\ room >= 0) =>
            /\ last.err = "none"
            /\ n >= 0
            /\ n <= Min(room, 4 * StringLength(a.value))
            /\ IF room >= Len(full) THEN n = Len(full) ELSE n < Len(full)
            /\ Slice(buffer, at, n) = SubSeq(full, 1, n)
            /\ \A i \in 1..Len(buffer) :
                    (i <= at \/ i > at + n) => buffer[i] = last.buffer[i]
            /\ at + n <= last.buf.superByteOffset + last.buf.byteLength
            /\ last.op = "set" => buf = last.buf
            /\ last.op = "write" => last.value = "undefined"

\* "Hello" written at the cursor with two bytes left in a view of eight
\* bytes of a memory of twelve
SetStringTruncatesWitness ==
    /\ last.op = "write"
    /\ last.type = "String"
    /\ last.args.value = <<72, 101, 108, 108, 111>>
    /\ last.buf.byteOffset = 6
    /\ last.buf.byteLength = 8
    /\ last.buf.superByteOffset = 0
    /\ last.err = "none"
    /\ buf.byteOffset = 8
    /\ Slice(buffer, 6, 6) = <<72, 101, 128, 128, 1, 0>>


\* C19: getString, readString, setString and writeString given an encoding
\* other than UTF-8 fail with UnsupportedEncoding, and leave the bytes and
\* the cursor as they were.
OtherEncodingFails ==
    (/\ last.type = "String"
     /\ last.op \in {"get", "read", "set", "write"}
     /\ last.args.byteEncoding # <<>>
     /\ last.args.byteEncoding # <<"utf-8">>) =>
        /\ last.err = "UnsupportedEncoding"
        /\ buffer = last.buffer
        /\ buf = last.buf

\* C20: the cursor p is within the view, 0 <= p <= byteLength, in every
\* state, so that bytesRemaining is between 0 and byteLength.
CursorInView ==
    /\ buf.byteOffset >= 0
    /\ buf.byteOffset <= buf.byteLength
    /\ bytesRemaining(buf) >= 0
    /\ bytesRemaining(buf) <= buf.byteLength



(***************************************************************************)
(* Properties of the zigzag encoder.  The transformed value is computed     *)
(* from the number, 2n for n >= 0 and -2n - 1 for n < 0, not by the shifts  *)
(* of the codec.                                                            *)
(***************************************************************************)
\* bits - 1, for bits that hold a set bit
Decrement(bits) ==
    Tuple([i \in 1..Len(bits) |->
        IF \A j \in 1..Len(bits) : j < i => bits[j] = 0
        THEN 1 - bits[i] ELSE bits[i]])

\* ((n << 1) ^ (n >> 31)) as an unsigned 32-bit number, -2^31 <= n < 2^31
Zigzag(n) ==
    IF n.mag = <<>> THEN n
    ELSE IF n.neg
    THEN [neg |-> FALSE, mag |-> <<1>> \o Trim(Decrement(n.mag))]
    ELSE [neg |-> FALSE, mag |-> <<0>> \o n.mag]

\* -64 <= n <= 63
FitsOneGroup(n) ==
    \/ Len(n.mag) <= 6
    \/ n.neg /\ n.mag = PowerOfTwo(6).mag

\* C21: setVarZint(offset, n), n a signed 32-bit number, ends as
\* setVarUint(offset, zz) does on the same memory, zz the zigzag transform
\* of n as an unsigned 32-bit number: the same bytes, the same length
\* returned, the same failure; -1 is stored as 01, 255 as fe 03, 0 as 00,
\* and every n of -64..63 in one byte.
ZintIsUintOfZigzag ==
    LET a == last.args
        n == a.value
        u == setVarUint(last.buffer, last.buf, a.byteOffset, Zigzag(n),
                        a.maxByteLength)
        at == last.buf.superByteOffset + a.byteOffset
    IN  (last.op = "set" /\ last.type = "VarZint") =>
            /\ buffer = u.buffer
            /\ last.err = u.err
            /\ last.value = u.value
            /\ buf = last.buf
            /\ last.err = "none" =>
                /\ n = Num(-1) => Slice(buffer, at, last.value) = <<1>>
                /\ n = Num(255) => Slice(buffer, at, last.value) = <<254, 3>>
                /\ n = Num(0) => Slice(buffer, at, last.value) = <<0>>
                /\ FitsOneGroup(n) <=> last.value = 1

\* 255 stored as fe 03 in the middle of the view
ZintIsUintOfZigzagWitness ==
    /\ last.op = "set"
    /\ last.type = "VarZint"
    /\ last.args.value = Num(255)
    /\ last.args.byteOffset = 3
    /\ last.err = "none"
    /\ last.value = 2
    /\ Slice(buffer, last.buf.superByteOffset + 3, 2) = <<254, 3>>



(***************************************************************************)
(* SpecFixed: the fixed-width types of two bytes and more, with             *)
(* littleEndian omitted, true and false, over the memory of Spec; the view  *)
(* is the whole memory or its first eight bytes.  The values are 1501, -2   *)
(* for the signed types, 2^60 for the 64-bit numbers and 1.5 for the        *)
(* floats.                                                                  *)
(***************************************************************************)
MultiByteTypes == FixedTypes \ {"Bool", "Int8", "Uint8"}

EndianFlags == {<<>>, <<TRUE>>, <<FALSE>>}

EndianValues ==
    [type \in FixedTypes |->
        IF type \in {"Float32", "Float64"} THEN {OneAndHalf(type)}
        ELSE {Num(1501)}
             \cup (IF type \in {"Int16", "Int32", "BigInt64", "Int64"}
                   THEN {Num(-2)} ELSE {})
             \cup (IF type \in {"Int64", "Uint64"}
                   THEN {PowerOfTwo(60)} ELSE {})]

InitFixed ==
    \E byteLength \in {<<>>, <<8>>}, n \in {0, 2} :
        Start(Hello, ArrayBufferSource(Hello), <<>>, byteLength, n)

NextFixed ==
    \/ Get(MultiByteTypes, {2}, EndianFlags)
    \/ Read(MultiByteTypes, EndianFlags)
    \/ Set(MultiByteTypes, {2}, EndianValues, EndianFlags)
    \/ Write(MultiByteTypes, EndianValues, EndianFlags)

SpecFixed == InitFixed /\ [][NextFixed]_vars

\* the offset the last fixed-width call worked at: its byteOffset, or the
\* cursor for a read or a write
FixedAt ==
    IF last.op \in {"get", "set"} THEN last.args.byteOffset
    ELSE last.buf.byteOffset

\* the other byte order
Opposite(littleEndian) ==
    IF littleEndian = <<TRUE>> THEN <<FALSE>> ELSE <<TRUE>>

\* C22: for a type of two bytes or more, set<Type>(offset, v, true) stores
\* the reverse of the bytes set<Type>(offset, v, false) stores; an omitted
\* littleEndian is big-endian for get, set, read and write; and get with
\* the flag of the set returns v.  Int16 1501 is dd 05 little-endian and
\* 05 dd big-endian.
EndianIsByteOrder ==
    LET a == last.args
        w == ByteWidth(last.type)
        at == last.buf.superByteOffset + FixedAt
        stored == Slice(buffer, at, w)
        flipped == SetFixed(last.type, last.buffer, last.buf, FixedAt,
                            a.value, Opposite(a.littleEndian))
        g == GetFixed(last.type, buffer, buf, FixedAt, a.littleEndian)
        r == ReadFixed(last.type, buffer, last.buf, a.littleEndian)
        big == GetFixed(last.type, last.buffer, last.buf, FixedAt,
                        <<FALSE>>)
    IN  /\ (/\ last.op \in {"set", "write"}
            /\ last.type \in MultiByteTypes
            /\ last.err = "none") =>
                /\ flipped.err = "none"
                /\ Slice(flipped.buffer, at, w) = Reverse(stored)
                /\ a.littleEndian = <<>> =>
                        buffer
                            = SetFixed(last.type, last.buffer, last.buf,
                                       FixedAt, a.value, <<FALSE>>).buffer
                /\ g.err = "none"
                /\ g.value = a.value
                /\ last.op = "write" => r.value = a.value
                /\ (last.type = "Int16" /\ a.value = Num(1501)) =>
                        stored = IF a.littleEndian = <<TRUE>>
                                 THEN <<221, 5>> ELSE <<5, 221>>
        /\ (/\ last.op \in {"get", "read"}
            /\ last.type \in MultiByteTypes
            /\ last.args.littleEndian = <<>>) =>
                /\ last.err = big.err
                /\ last.value = big.value

\* Int16 1501 written at the cursor with littleEndian omitted: 05 dd, which
\* is not its own reverse
EndianIsByteOrderWitness ==
    /\ last.op = "write"
    /\ last.type = "Int16"
    /\ last.args.value = Num(1501)
    /\ last.args.littleEndian = <<>>
    /\ last.err = "none"
    /\ Slice(buffer, last.buf.superByteOffset + last.buf.byteOffset, 2)
            = <<5, 221>>
    /\ getInt16(buffer, buf, last.buf.byteOffset, <<TRUE>>).value
            # Num(1501)



(***************************************************************************)
(* Properties of the arrays.                                                *)
(***************************************************************************)
\* the bytes of the memory the last call changed are the n bytes from the
\* memory index at on, and they hold bytes
CopiedAt(at, bytes) ==
    /\ Slice(buffer, at, Len(bytes)) = bytes
    /\ \A i \in 1..Len(buffer) :
            (i <= at \/ i > at + Len(bytes)) => buffer[i] = last.buffer[i]

\* C23: getUint16Array(offset, byteLength) succeeds wherever
\* getUint8Array(offset, byteLength) does, and its array starts at the same
\* byte with floor(byteLength / 2) elements; readUint16Array(byteLength)
\* moves the cursor by 2 * floor(byteLength / 2); setUint16Array and
\* writeUint16Array copy value.byteLength bytes.
Uint16ArrayLikeUint8Array ==
    LET a == last.args
        p == last.buf.byteOffset
        bytes == getUint8Array(last.buffer, last.buf,
                               IF last.op = "get" THEN a.byteOffset ELSE p,
                               a.byteLength)
    IN  last.type = "Uint16Array" =>
            /\ (/\ last.op \in {"get", "read"}
                /\ a.byteLength # <<>>
                /\ bytes.err = "none") =>
                    /\ last.err = "none"
                    /\ last.value.byteOffset = bytes.value.byteOffset
                    /\ last.value.length = a.byteLength[1] \div 2
                    /\ last.value.byteLength = 2 * (a.byteLength[1] \div 2)
                    /\ buffer = last.buffer
            /\ (last.op = "read" /\ a.byteLength # <<>>
                    /\ last.err = "none") =>
                    buf.byteOffset = p + 2 * (a.byteLength[1] \div 2)
            /\ (last.op = "set" /\ last.err = "none") =>
                    /\ CopiedAt(last.buf.superByteOffset + a.byteOffset,
                                a.value)
                    /\ buf = last.buf
            /\ (last.op = "write" /\ last.err = "none") =>
                    /\ CopiedAt(last.buf.superByteOffset + p, a.value)
                    /\ buf.byteOffset = p + Len(a.value)



(***************************************************************************)
(* Properties of construction and of the cursor's moves.                    *)
(***************************************************************************)
\* C24: from(source, offset) with offset negative or greater than
\* source.byteLength fails with OutOfRange and creates no view, also for a
\* source that is a view inside a larger memory.
FromRejectsOffsetOutsideSource ==
    LET a == last.args
    IN  (/\ last.op = "from"
         /\ a.byteOffset # <<>>
         /\ \/ a.byteOffset[1] < 0
            \/ a.byteOffset[1] > a.source.byteLength) =>
            /\ last.err = "OutOfRange"
            /\ buf = last.buf
            /\ buffer = last.buffer



(***************************************************************************)
(* SpecStream: the cursor and the streaming calls.  Over the memory of      *)
(* Spec, the view is the whole memory, its first eight bytes, or eight      *)
(* bytes from byte 2 on; the cursor is moved before the view, inside it,    *)
(* one byte before its end, to its end and past it.                         *)
(***************************************************************************)
StreamSkips == {-1, 0, 7, 8, 12, 13}

InitStream ==
    \E n \in StreamSkips :
        \/ \E byteLength \in {<<>>, <<8>>} :
                Start(Hello, ArrayBufferSource(Hello), <<>>, byteLength, n)
        \/ Start(Hello, ViewSource(2, 8), <<>>, <<8>>, n - 2)

NextStream ==
    \/ Skip({-1, 1})
    \/ Reset
    \/ Read(FixedTypes, {<<>>})
    \/ Write(FixedTypes, FixedValues, {<<>>})
    \/ ReadVarint(VarTypes, Maxes)
    \/ WriteVarint(VarTypes, VarValues, Maxes)
    \/ ReadTypedArray(ArrayTypes, ArrayLengths)
    \/ WriteTypedArray(ArrayTypes, Arrays)
    \/ ReadString(ArrayLengths, Encodings)
    \/ WriteString(Strings, Encodings)
    \/ ReadVarString(StringMaxes)
    \/ WriteVarString(Strings)

SpecStream == InitStream /\ [][NextStream]_vars

\* the cursor before the last call lay outside 0..byteLength
CursorOutside ==
    \/ last.buf.byteOffset < 0
    \/ last.buf.byteOffset > last.buf.byteLength

\* the bytes the last streaming call has to touch at the cursor: the width
\* of a fixed-width type, the groups of a varint written (as many as its
\* maxByteLength lets it write) and the first byte of one read, the bytes
\* of an array or a string of a given length, the prefix and the payload
\* of a VarString written and the first byte of one read; 0 where the call
\* gives no length
BytesNeeded ==
    LET a == last.args
    IN  CASE last.type \in FixedTypes -> ByteWidth(last.type)
          [] last.type \in VarTypes /\ last.op = "read" -> 1
          [] last.type \in {"VarInt", "VarUint"} /\ last.op = "write" ->
                Min(GroupCount(FromUnsigned(ToWord(a.value))),
                    LimitOf(a.maxByteLength))
          [] last.type = "VarZint" /\ last.op = "write" ->
                Min(GroupCount(Zigzag(a.value)), LimitOf(a.maxByteLength))
          [] last.type \in {"Uint8Array", "String"} /\ last.op = "read" ->
                IF a.byteLength = <<>> THEN 0 ELSE a.byteLength[1]
          [] last.type = "Uint16Array" /\ last.op = "read" ->
                IF a.byteLength = <<>> THEN 0
                ELSE 2 * (a.byteLength[1] \div 2)
          [] last.type \in ArrayTypes /\ last.op = "write" -> Len(a.value)
          [] last.type = "String" /\ last.op = "write" ->
                Len(TextEncode(a.value))
          [] last.type = "VarString" /\ last.op = "read" -> 1
          [] last.type = "VarString" /\ last.op = "write" ->
                Len(LengthPrefix(Len(TextEncode(a.value))))
                    + Len(TextEncode(a.value))
          [] OTHER -> 0

\* C25: skip(n) always returns and moves the cursor by n, whatever n; and a
\* streaming read or write that needs at least one byte fails with
\* OutOfBounds when the cursor lies outside 0..byteLength or fewer bytes
\* remain than it needs (writeString, which truncates, when the cursor lies
\* outside; the strings in UTF-8).
SkipIsCaughtLazily ==
    /\ last.op = "skip" =>
            /\ last.err = "none"
            /\ buf.byteOffset = last.buf.byteOffset + last.args.byteLength
            /\ buffer = last.buffer
    /\ (/\ last.op \in {"read", "write"}
        /\ BytesNeeded >= 1
        /\ last.type = "String" => last.args.byteEncoding = <<>>
        /\ \/ CursorOutside
           \/ /\ bytesRemaining(last.buf) < BytesNeeded
              /\ ~(last.type = "String" /\ last.op = "write")) =>
            last.err = "OutOfBounds"



(***************************************************************************)
(* SpecTwo: two views over one memory, the whole of it and eight bytes      *)
(* from byte 2 on, each with its cursor moved by a skip.  The program       *)
(* calls buf; Turn is the program going on with its other view.             *)
(***************************************************************************)
InitTwo ==
    \E n \in {0, 3}, m \in {0, 1} :
        LET f == from(Hello, ArrayBufferSource(Hello), <<>>, <<>>)
            g == from(Hello, ArrayBufferSource(Hello), <<2>>, <<8>>)
        IN  /\ buffer = Hello
            /\ buf = After(f.object, skip(Hello, f.object, n))
            /\ other = After(g.object, skip(Hello, g.object, m))
            /\ last = Called("from", "ByteBuf", "none",
                             [source |-> ArrayBufferSource(Hello),
                              byteOffset |-> <<2>>, byteLength |-> <<8>>,
                              skip |-> m],
                             Hello, g.object, "none")
            /\ ops = 0

\* the program's next call is on the view it held aside: no method runs
Turn ==
    /\ other # <<>>
    /\ buf' = other
    /\ other' = buf
    /\ last' = Called("turn", "ByteBuf", "none", <<>>, buffer, buf, "none")
    /\ UNCHANGED <<buffer, ops>>

NextTwo ==
    \/ Turn
    \/ Skip({-1, 2})
    \/ Reset
    \/ Read(FixedTypes, {<<>>})
    \/ Write(FixedTypes, FixedValues, {<<>>})
    \/ ReadVarint(VarTypes, Maxes)
    \/ WriteVarint(VarTypes, VarValues, Maxes)
    \/ ReadTypedArray(ArrayTypes, ArrayLengths)
    \/ WriteTypedArray(ArrayTypes, Arrays)
    \/ ReadString(ArrayLengths, Encodings)
    \/ WriteString(Strings, Encodings)
    \/ ReadVarString(StringMaxes)
    \/ WriteVarString(Strings)

SpecTwo == InitTwo /\ [][NextTwo]_vars

\* the byte of the memory at index i + 1, read through the view b
SeenThrough(mem, b, i) == getUint8(mem, b, i - b.superByteOffset)

InRange(b, i) ==
    i >= b.superByteOffset /\ i < b.superByteOffset + b.byteLength

\* C27: a get, set, read or write changes no byte of the memory outside
\* the view's range, and an array returned for an explicit byteLength lies
\* inside the range, also when the memory is larger than the view; a call
\* that would not stay inside fails with OutOfBounds.
StaysInsideView ==
    LET a == last.args
    IN  last.op \in {"get", "set", "read", "write"} =>
            /\ \A i \in 0..(Len(buffer) - 1) :
                    buffer[i + 1] # last.buffer[i + 1]
                        => InRange(last.buf, i)
            /\ (/\ last.type \in ArrayTypes
                /\ last.op \in {"get", "read"}
                /\ a.byteLength # <<>>
                /\ last.err = "none") =>
                    /\ last.value.byteOffset >= last.buf.superByteOffset
                    /\ last.value.byteOffset + last.value.byteLength
                            <= last.buf.superByteOffset
                                + last.buf.byteLength


\* C28: a streaming read or write that fails, with OutOfBounds,
\* LengthExceeded or UnsupportedEncoding, leaves the cursor where it was
\* before the call, the one-byte readBool, readInt8, readUint8, writeBool,
\* writeInt8 and writeUint8 at or past the view's end like the others.
FailedStreamKeepsCursor ==
    (last.op \in {"read", "write"} /\ last.err # "none") =>
        buf.byteOffset = last.buf.byteOffset


\* C29: a setVarInt, setVarUint or setVarZint (or its write form) that
\* fails, with LengthExceeded or with OutOfBounds, has changed no byte of
\* the memory; nor has a setVarString that fails because the prefix and
\* the payload do not fit.
FailedSetVarChangesNothing ==
    (/\ last.op \in {"set", "write"}
     /\ last.type \in VarTypes \cup {"VarString"}
     /\ last.err # "none") =>
        buffer = last.buffer


\* C30: clear() sets every byte in the view's range to 0, leaves every
\* byte of the memory outside the range as it was, also for a view shorter
\* than the memory, and does not move the cursor.
ClearZeroesView ==
    last.op = "clear" =>
        /\ last.err = "none"
        /\ \A i \in 0..(Len(buffer) - 1) :
                buffer[i + 1]
                    = IF InRange(last.buf, i) THEN 0 ELSE last.buffer[i + 1]
        /\ buf = last.buf

====
